---- MODULE Spec2Model ----
(***************************************************************************)
(* Vanity extension-id search: the candidate generator, the identifier     *)
(* derivation and prefix test, and the coordination of CPU worker threads  *)
(* with an optional GPU batch worker (src/src/main.rs, gpu.rs,             *)
(* cuda_gpu.rs).                                                           *)
(*                                                                         *)
(* Machine words: the program's u64 is modelled WordBits wide, so that the *)
(* ends of the index space and of the per-worker ranges are states TLC     *)
(* reaches.  Bytes are 0..255; a string is the sequence of its bytes.      *)
(***************************************************************************)
EXTENDS Integers, Sequences, FiniteSets, TLC

\* ------------------------------------------------------------------ bounds

\* Width of the modelled u64 (64 in the program).
WordBits == 12

\* Largest number of CPU worker threads a run is given (cli.cores).
MaxThreads == 2

\* A CPU worker starts no further candidate test after this many.
MaxAttempts == 2

\* The GPU worker starts no further batch after this many.
MaxBatches == 3

\* The smaller of the two GPU batch sizes a run is given (cli.gpu_batch_size).
SmallBatch == 2

\* PROGRESS_REPORT_INTERVAL: 500000 in the program, scaled to the attempts
\* a modelled worker makes.
PROGRESS_REPORT_INTERVAL == 2

\* A single-worker run is followed over the indices [0, RangeBound).
RangeBound == 32

\* GPU-only runs are followed for the batch sizes 1..MaxBatchSize.
MaxBatchSize == 5

\* ------------------------------------------------------- program constants

\* u64::MAX
U64_MAX == 2^WordBits - 1

\* const MAPPING: [char; 16] = ['a', .., 'p'], as bytes
MAPPING == <<97, 98, 99, 100, 101, 102, 103, 104,
             105, 106, 107, 108, 109, 110, 111, 112>>

\* const THREAD_RANGE_SIZE: u64 = u64::MAX / 1024
THREAD_RANGE_SIZE == U64_MAX \div 1024

\* const GPU_RANGE_START: u64 = 0
GPU_RANGE_START == 0

\* const CPU_RANGE_START: u64 = u64::MAX / 2
CPU_RANGE_START == U64_MAX \div 2

\* const CPU_THREAD_RANGE_SIZE: u64 = (u64::MAX / 2) / 1024
CPU_THREAD_RANGE_SIZE == (U64_MAX \div 2) \div 1024

\* ----------------------------------------------------------- byte helpers

\* x >> (8 * j) on an unsigned word
RECURSIVE ShrBytes(_, _)
ShrBytes(x, j) == IF j = 0 THEN x ELSE ShrBytes(x \div 256, j - 1)

\* a ^ b on unsigned words
RECURSIVE BitXor(_, _)
BitXor(a, b) ==
    IF a = 0 THEN b
    ELSE IF b = 0 THEN a
    ELSE (((a % 2) + (b % 2)) % 2) + 2 * BitXor(a \div 2, b \div 2)

RECURSIVE SumSeq(_, _)
SumSeq(s, n) == IF n = 0 THEN 0 ELSE s[n] + SumSeq(s, n - 1)

\* s.starts_with(p) on byte strings
StartsWith(s, p) ==
    /\ Len(p) <= Len(s)
    /\ \A i \in 1..Len(p) : s[i] = p[i]

\* ------------------------------------------------- candidate and identifier

\* generate_key_data(counter): data[..8] = counter.to_le_bytes();
\* data[i] = ((counter >> (i % 8)) ^ i) as u8 for i in 8..32.
\* Element k of the sequence is data[k - 1].
\* generate_key_data with counter.to_be_bytes() in bytes 0..7
generate_key_data_be(counter) ==
    [k \in 1..8 |-> ShrBytes(counter, 8 - k) % 256]
      \o [k \in 1..24 |->
            LET i == k + 7 IN
            BitXor((counter \div (2^(i % 8))) % 256, i)]

\* generate_key_data that copies only the low byte of the index
generate_key_data_low_byte(counter) ==
    [k \in 1..8 |-> IF k = 1 THEN counter % 256 ELSE 0]
      \o [k \in 1..24 |->
            LET i == k + 7 IN
            BitXor((counter \div (2^(i % 8))) % 256, i)]

generate_key_data(counter) ==
    [k \in 1..8 |-> ShrBytes(counter, k - 1) % 256]
      \o [k \in 1..24 |->
            LET i == k + 7 IN
            BitXor((counter \div (2^(i % 8))) % 256, i)]

\* Sha256::digest(&key_data): the sha2 crate's SHA-256.  The model keeps what
\* the program relies on, a fixed total function from byte blocks to 32-byte
\* digests that spreads candidates over the leading nibbles; the arithmetic
\* of SHA-256 itself is the library's.  Sha256Bytes gives the first n bytes
\* of the digest of a block whose bytes sum to s; Sha256Digest binds the block
\* and its byte sum to their values and takes all 32.
RECURSIVE Sha256Bytes(_, _, _)
Sha256Bytes(block, s, n) ==
    IF n = 0 THEN <<>>
    ELSE Append(Sha256Bytes(block, s, n - 1),
                (s * 31 + block[n] * 7
                   + block[(((n - 1) * 5 + 3) % 32) + 1] * 3 + 11 * n) % 256)

Sha256Digest(block) ==
    LET digest[data \in {block}] ==
            LET bytes[s \in {SumSeq(data, Len(data))}] ==
                    Sha256Bytes(data, s, 32)
            IN  bytes[SumSeq(data, Len(data))]
    IN  digest[block]

\* hash_to_extension_id(hash): two characters per byte of hash[..16],
\* MAPPING[byte >> 4] then MAPPING[byte & 0x0F].  IdChars is the string
\* after the first n bytes have been pushed.
RECURSIVE IdChars(_, _)
IdChars(hash, n) ==
    IF n = 0 THEN <<>>
    ELSE IdChars(hash, n - 1)
           \o <<MAPPING[(hash[n] \div 16) + 1], MAPPING[(hash[n] % 16) + 1]>>

\* hash_to_extension_id with [low, high] for each byte
hash_to_extension_id_low_first(hash) ==
    [n \in 1..32 |->
        IF n % 2 = 1 THEN MAPPING[(hash[(n + 1) \div 2] % 16) + 1]
        ELSE MAPPING[(hash[n \div 2] \div 16) + 1]] \o <<>>

hash_to_extension_id(hash) ==
    LET chars[h \in {hash}] == IdChars(h, 16)
    IN  chars[hash]

\* hash_matches_prefix_optimized(hash, prefix): the full-byte loop
\* `for byte_idx in 0..full_bytes`, from byte_idx on.  "panic" is the
\* out-of-bounds index hash[byte_idx].
RECURSIVE MatchFullBytes(_, _, _, _)
MatchFullBytes(hash, prefix_bytes, byte_idx, full_bytes) ==
    IF byte_idx >= full_bytes THEN "true"
    ELSE IF byte_idx >= Len(hash) THEN "panic"
    ELSE
        LET hash_byte     == hash[byte_idx + 1]
            expected_high == prefix_bytes[byte_idx * 2 + 1]
            expected_low  == prefix_bytes[byte_idx * 2 + 2]
            actual_high   == MAPPING[(hash_byte \div 16) + 1]
            actual_low    == MAPPING[(hash_byte % 16) + 1]
        IN  IF actual_high # expected_high \/ actual_low # expected_low
            THEN "false"
            ELSE MatchFullBytes(hash, prefix_bytes, byte_idx + 1, full_bytes)

\* hash_matches_prefix_optimized without the odd-length tail: only the
\* full pairs of characters are compared.
hash_matches_prefix_pairs_only(hash, prefix_bytes) ==
    MatchFullBytes(hash, prefix_bytes, 0, Len(prefix_bytes) \div 2)

\* hash_matches_prefix_optimized with the odd tail compared to the low nibble
hash_matches_prefix_low_tail(hash, prefix_bytes) ==
    LET prefix_len == Len(prefix_bytes)
        full_bytes == prefix_len \div 2
    IN  IF prefix_len = 0 THEN "true"
        ELSE LET pairs == MatchFullBytes(hash, prefix_bytes, 0, full_bytes) IN
             IF pairs # "true" THEN pairs
             ELSE IF prefix_len % 2 = 1
             THEN IF full_bytes >= Len(hash) THEN "panic"
                  ELSE IF MAPPING[(hash[full_bytes + 1] % 16) + 1]
                            # prefix_bytes[prefix_len]
                       THEN "false"
                       ELSE "true"
             ELSE "true"

\* hash_matches_prefix_optimized(hash, prefix): "true", "false" or "panic".
hash_matches_prefix_optimized(hash, prefix_bytes) ==
    LET prefix_len == Len(prefix_bytes)
        full_bytes == prefix_len \div 2
    IN  IF prefix_len = 0 THEN "true"
        ELSE LET pairs == MatchFullBytes(hash, prefix_bytes, 0, full_bytes) IN
             IF pairs # "true" THEN pairs
             ELSE IF prefix_len % 2 = 1
             THEN IF full_bytes >= Len(hash) THEN "panic"
                  ELSE IF MAPPING[(hash[full_bytes + 1] \div 16) + 1]
                            # prefix_bytes[prefix_len]
                       THEN "false"
                       ELSE "true"
             ELSE "true"

\* Option<T>: None, Some(x)
None == <<>>
Some(x) == <<x>>

\* The candidates of the index space: the key data generate_key_data builds
\* from a counter, its digest and the identifier of the digest.  The three
\* are functions of the counter alone, so they are tabulated once, as a
\* sequence of values whose entry counter + 1 belongs to `counter`.
CandidateTable ==
    [n \in 1..(U64_MAX + 1) |->
        LET key_data == generate_key_data(n - 1)
            hash     == Sha256Digest(key_data)
        IN  [key_data |-> key_data,
             hash     |-> hash,
             ext_id   |-> hash_to_extension_id(hash)]] \o <<>>

Candidate(counter) == CandidateTable[counter + 1]

\* try_generate_match_optimized(desired_prefix, counter):
\* Some((extension_id, key_data)) when the digest of the candidate matches.
\* try_generate_match_optimized returning the identifier of the candidate
\* after the one it returns
try_generate_match_next_id(desired_prefix, counter) ==
    IF hash_matches_prefix_optimized(Candidate(counter).hash, desired_prefix) = "true"
    THEN Some([ext_id |-> Candidate(counter + 1).ext_id,
               key_data |-> Candidate(counter).key_data])
    ELSE None

try_generate_match_optimized(desired_prefix, counter) ==
    IF hash_matches_prefix_optimized(Candidate(counter).hash, desired_prefix)
          = "true"
    THEN Some([ext_id   |-> Candidate(counter).ext_id,
               key_data |-> Candidate(counter).key_data])
    ELSE None

\* ------------------------------------------------------------ accelerator

\* The compute kernel behind search_vanity_id (vanity_id.metal, the CUDA
\* kernel): it tests every counter of [start_counter, start_counter +
\* batch_size) with the candidate generator and prefix test above and reports
\* the lowest matching counter, or -1 when the batch holds none.
RECURSIVE KernelScan(_, _, _)
KernelScan(prefix_bytes, counter, end) ==
    IF counter >= end THEN -1
    ELSE IF try_generate_match_optimized(prefix_bytes, counter) # None
         THEN counter
         ELSE KernelScan(prefix_bytes, counter + 1, end)

\* GpuVanityGenerator / CudaVanityGenerator::search_vanity_id(prefix,
\* start_counter, batch_size): the outcomes one call can have, Err(..),
\* Ok(None) or Ok(Some((counter, key_data))).
search_vanity_id(prefix_bytes, start_counter, batch_size) ==
    LET hit == KernelScan(prefix_bytes, start_counter, start_counter + batch_size)
    IN  {[kind |-> "Err", counter |-> 0, key_data |-> <<>>]}
          \cup
        {IF hit = -1
         THEN [kind |-> "None", counter |-> 0, key_data |-> <<>>]
         ELSE [kind |-> "Some", counter |-> hit,
               key_data |-> generate_key_data(hit)]}

\* ------------------------------------------------------------------ state

VARIABLES
    \* SearchTask (Cli): the runner main() calls and its arguments
    mode,               \* "cpu": run_vanity_id_generator, "hybrid": run_*hybrid*
    prefix,             \* desired_prefix, as bytes
    num_threads,        \* num_threads / num_cpu_threads
    gpu_batch_size,     \* gpu_batch_size
    \* shared run state
    found,              \* Arc<AtomicBool>
    result,             \* Arc<Mutex<Option<..>>>
    thread_attempts,    \* Arc<Mutex<Vec<u64>>> (cpu_attempts in hybrid mode)
    gpu_attempts,       \* Arc<Mutex<u64>>
    \* CPU worker threads
    pc,                 \* position of each worker's closure
    local_counter,
    local_attempts,
    \* GPU worker thread
    gpu_pc,
    batch_id,
    local_gpu_attempts,
    gpu_match,          \* the Some((found_counter, key_data)) being handled
    \* coordinator (the runner's own thread)
    run_state,          \* "idle", "running", "joined", "completed", "aborted"
    result_data,        \* result.lock().unwrap().take()
    total,              \* total attempts reported
    \* history of the run, read by the properties only
    tested,             \* <<thread_id, counter>> of every candidate test done
    gpu_batches,        \* batch_start_counter of every search_vanity_id call
    slot_writes,        \* the workers that assigned the result slot, in order
    swap_winners,       \* the workers whose found.swap(true) returned false
    late_tests,         \* per CPU worker: tests done with found already true
    late_batches,       \* batches returned with found already true
    \* the accelerator handle (GpuVanityGenerator / CudaVanityGenerator)
    gpu_handle,         \* "none", "live" after new() returned Ok, "dropped"
    cleanups,           \* number of times Drop::drop ran cuda_cleanup()
    \* the four Mutexes of a run
    lock_owner,         \* per Mutex: the thread holding its guard, or NoOwner
    \* a function called on its own, outside a run
    call                \* the function, its arguments and what it returned

vars == <<mode, prefix, num_threads, gpu_batch_size, found, result,
          thread_attempts, gpu_attempts, pc, local_counter, local_attempts,
          gpu_pc, batch_id, local_gpu_attempts, gpu_match, run_state,
          result_data, total, tested, gpu_batches, slot_writes, swap_winners,
          late_tests, late_batches, gpu_handle, cleanups, lock_owner, call>>

\* what no step of a run assigns
config_vars == <<mode, prefix, num_threads, gpu_batch_size, call>>
accel_vars  == <<gpu_handle, cleanups>>
history_vars == <<tested, gpu_batches, slot_writes, swap_winners, late_tests,
                  late_batches>>

\* the Mutexes: result, thread_attempts / cpu_attempts, gpu_attempts,
\* last_progress_time
Locks == {"result", "attempts", "gpu_attempts", "last_progress_time"}

\* no guard of the Mutex is alive
NoOwner == <<"none", 0>>

\* the thread of the coordinator (main)
CoordLabel == <<"MAIN", 0>>
cpu_vars    == <<pc, local_counter, local_attempts>>
gpu_vars    == <<gpu_pc, batch_id, local_gpu_attempts, gpu_match>>
coord_vars  == <<run_state, result_data, total>>

\* thread ids of the CPU workers: (0..num_threads)
Threads == 0..(num_threads - 1)

\* the label a worker stores as `winner`: format!("CPU-{}", thread_id), "GPU"
CpuLabel(thread_id) == <<"CPU", thread_id>>
GpuLabel == <<"GPU", 0>>

\* desired prefixes of the modelled runs: "", "o", "b", "d"
Prefixes == {<<>>, <<111>>, <<98>>, <<100>>}

\* GPU batch sizes of the modelled runs: a small one, and one that is
\* larger than half of the index space
BatchSizes == {SmallBatch, (U64_MAX \div 2) + 1}

\* thread_start_counter with a stride one index short of THREAD_RANGE_SIZE:
\* neighbouring ranges share an index.
thread_start_counter_short(thread_id) == thread_id * (THREAD_RANGE_SIZE - 1)

\* thread_start_counter in run_vanity_id_generator
\* thread_start_counter with the ranges numbered from 1
thread_start_counter_from_one(thread_id) == (thread_id + 1) * THREAD_RANGE_SIZE

thread_start_counter(thread_id) == thread_id * THREAD_RANGE_SIZE

\* thread_start_counter in the hybrid runners
\* the hybrid start counter with the stride of the CPU-only runner
hybrid_thread_start_counter_wide(thread_id) ==
    CPU_RANGE_START + (thread_id * THREAD_RANGE_SIZE)

hybrid_thread_start_counter(thread_id) ==
    CPU_RANGE_START + (thread_id * CPU_THREAD_RANGE_SIZE)

\* batch_start_counter in the GPU worker's loop
\* batch_start_counter with one index left out between two batches
batch_start_counter_gapped(id, size) == GPU_RANGE_START + (id * (size + 1))

\* batch_start_counter with the batches numbered from 1
batch_start_counter_from_one(id, size) == GPU_RANGE_START + ((id + 1) * size)

batch_start_counter(id, size) == GPU_RANGE_START + (id * size)

\* The run state a runner builds before it spawns a thread: the flag false,
\* the slot empty, the attempt slots zero.
RunStateInit ==
    /\ found = FALSE
    /\ result = None
    /\ thread_attempts = [t \in Threads |-> 0]
    /\ gpu_attempts = 0
    /\ pc = [t \in Threads |-> "unspawned"]
    /\ local_counter = [t \in Threads |-> 0]
    /\ local_attempts = [t \in Threads |-> 0]
    /\ gpu_pc = "unspawned"
    /\ batch_id = 0
    /\ local_gpu_attempts = 0
    /\ gpu_match = None
    /\ run_state = "idle"
    /\ result_data = None
    /\ total = 0
    /\ tested = {}
    /\ gpu_batches = {}
    /\ slot_writes = <<>>
    /\ swap_winners = {}
    /\ late_tests = [t \in Threads |-> 0]
    /\ late_batches = 0
    /\ gpu_handle = "none"
    /\ cleanups = 0
    /\ lock_owner = [l \in Locks |-> NoOwner]

\* a run: no function is called outside it
NoCall == [op |-> "none"]

RunInit == RunStateInit /\ call = NoCall

\* main(): the arguments it hands the runner, cli.cores threads (possibly 0)
\* for the CPU runner, max(1, cli.cores / 4) for the hybrid runners.
Init ==
    /\ mode \in {"cpu", "hybrid"}
    /\ prefix \in Prefixes
    /\ num_threads \in (IF mode = "cpu" THEN 0..MaxThreads ELSE 1..MaxThreads)
    /\ gpu_batch_size \in (IF mode = "cpu" THEN {SmallBatch} ELSE BatchSizes)
    /\ RunInit

\* ------------------------------------------------------------ coordinator

\* run_vanity_id_generator: the shared state is built and every worker
\* thread is spawned; each closure starts at its own thread_start_counter.
StartCpu ==
    /\ run_state = "idle"
    /\ mode = "cpu"
    /\ run_state' = "running"
    /\ pc' = [t \in Threads |-> "loop"]
    /\ local_counter' = [t \in Threads |-> thread_start_counter(t)]
    /\ UNCHANGED <<config_vars, lock_owner, accel_vars, found, result, thread_attempts, gpu_attempts,
                   local_attempts, gpu_vars, result_data, total, tested,
                   gpu_batches, slot_writes, swap_winners, late_tests,
                   late_batches>>

\* run_hybrid_vanity_id_generator / run_cuda_hybrid_vanity_id_generator:
\* the accelerator initialises, then the GPU thread and the CPU threads are
\* spawned.
StartHybrid ==
    /\ run_state = "idle"
    /\ mode = "hybrid"
    /\ run_state' = "running"
    /\ gpu_handle' = "live"
    /\ gpu_pc' = "loop"
    /\ pc' = [t \in Threads |-> "loop"]
    /\ local_counter' = [t \in Threads |-> hybrid_thread_start_counter(t)]
    /\ UNCHANGED <<config_vars, lock_owner, cleanups, found, result, thread_attempts, gpu_attempts,
                   local_attempts, batch_id, local_gpu_attempts, gpu_match,
                   result_data, total, tested, gpu_batches, slot_writes,
                   swap_winners, late_tests, late_batches>>

\* GpuVanityGenerator::new() / CudaVanityGenerator::new() fails:
\* eprintln!, std::process::exit(1).
\* InitFails with the Err arm falling through to the spawns
InitFails_SpawnsAnyway ==
    /\ run_state = "idle"
    /\ mode \in {"hybrid", "gpu"}
    /\ run_state' = "aborted"
    /\ pc' = [t \in Threads |-> "loop"]
    /\ gpu_pc' = "loop"
    /\ UNCHANGED <<config_vars, lock_owner, accel_vars, found, result, thread_attempts,
                   gpu_attempts, local_counter, local_attempts, batch_id,
                   local_gpu_attempts, gpu_match, result_data, total, tested,
                   gpu_batches, slot_writes, swap_winners, late_tests,
                   late_batches>>

InitFails ==
    /\ run_state = "idle"
    /\ mode \in {"hybrid", "gpu"}
    /\ run_state' = "aborted"
    /\ UNCHANGED <<config_vars, lock_owner, accel_vars, found, result, thread_attempts, gpu_attempts,
                   cpu_vars, gpu_vars, result_data, total, tested, gpu_batches,
                   slot_writes, swap_winners, late_tests, late_batches>>

\* JoinAll that waits for the GPU thread and the first CPU thread only.
JoinAll_FirstOnly ==
    /\ run_state = "running"
    /\ \A t \in Threads : t = 0 => pc[t] = "done"
    /\ mode = "hybrid" => gpu_pc = "done"
    /\ run_state' = "joined"
    /\ UNCHANGED <<config_vars, lock_owner, accel_vars, found, result, thread_attempts, gpu_attempts,
                   cpu_vars, gpu_vars, result_data, total, tested, gpu_batches,
                   slot_writes, swap_winners, late_tests, late_batches>>

\* gpu_handle.join().unwrap(); for handle in handles { handle.join().unwrap() }
\* JoinAll without gpu_handle.join()
JoinAll_CpuOnly ==
    /\ run_state = "running"
    /\ mode \in {"cpu", "hybrid"}
    /\ \A t \in Threads : pc[t] = "done"
    /\ run_state' = "joined"
    /\ UNCHANGED <<config_vars, lock_owner, accel_vars, found, result, thread_attempts,
                   gpu_attempts, cpu_vars, gpu_vars, result_data, total,
                   tested, gpu_batches, slot_writes, swap_winners, late_tests,
                   late_batches>>

JoinAll ==
    /\ run_state = "running"
    /\ mode \in {"cpu", "hybrid"}
    /\ \A t \in Threads : pc[t] = "done"
    /\ mode = "hybrid" => gpu_pc = "done"
    /\ run_state' = "joined"
    /\ UNCHANGED <<config_vars, lock_owner, accel_vars, found, result, thread_attempts, gpu_attempts,
                   cpu_vars, gpu_vars, result_data, total, tested, gpu_batches,
                   slot_writes, swap_winners, late_tests, late_batches>>

RECURSIVE SumAttempts(_, _)
SumAttempts(attempts, n) ==
    IF n = 0 THEN 0 ELSE attempts[n - 1] + SumAttempts(attempts, n - 1)

\* let result_data = result.lock().unwrap().take(); if it is Some, the
\* attempt slots are summed and the match is reported.
TakeResult ==
    /\ run_state = "joined"
    /\ result_data' = result
    /\ result' = None
    /\ total' = IF result # None
                THEN gpu_attempts + SumAttempts(thread_attempts, num_threads)
                ELSE total
    /\ run_state' = "completed"
    /\ UNCHANGED <<config_vars, lock_owner, accel_vars, found, thread_attempts, gpu_attempts, cpu_vars,
                   gpu_vars, tested, gpu_batches, slot_writes, swap_winners,
                   late_tests, late_batches>>

\* ------------------------------------------------------------ CPU worker

\* The tuple a CPU worker stores in the result slot: (ext_id, key_data,
\* local_attempts + 1), and in the hybrid runners format!("CPU-{}", thread_id).
CpuResult(t) ==
    LET m == try_generate_match_optimized(prefix, local_counter[t])[1] IN
    IF mode = "cpu"
    THEN [ext_id |-> m.ext_id, key_data |-> m.key_data,
          attempts |-> local_attempts[t] + 1]
    ELSE [ext_id |-> m.ext_id, key_data |-> m.key_data,
          attempts |-> local_attempts[t] + 1, winner |-> CpuLabel(t)]

\* CpuLoad that never reads the flag: `loop` in place of `while !found`.
CpuLoad_NoPoll(t) ==
    /\ pc[t] = "loop"
    /\ local_attempts[t] < MaxAttempts
    /\ pc' = [pc EXCEPT ![t] = "test"]
    /\ UNCHANGED <<config_vars, lock_owner, accel_vars, found, result, thread_attempts, gpu_attempts,
                   local_counter, local_attempts, gpu_vars, coord_vars, tested,
                   gpu_batches, slot_writes, swap_winners, late_tests,
                   late_batches>>

\* while !found.load(Ordering::Relaxed): the loop is left when the flag is
\* read true, and the next candidate test begins otherwise.  The worker is
\* followed for `cap` candidate tests.
CpuLoadUpTo(t, cap) ==
    /\ pc[t] = "loop"
    /\ found \/ local_attempts[t] < cap
    /\ pc' = [pc EXCEPT ![t] = IF found THEN "final" ELSE "test"]
    /\ UNCHANGED <<config_vars, lock_owner, accel_vars, found, result, thread_attempts, gpu_attempts,
                   local_counter, local_attempts, gpu_vars, coord_vars, tested,
                   gpu_batches, slot_writes, swap_winners, late_tests,
                   late_batches>>

CpuLoad(t) == CpuLoadUpTo(t, MaxAttempts)

\* CpuTest that reads the flag only with the progress report: after a miss
\* between two reports the next test follows at once.
CpuTest_PollAtReport(t) ==
    /\ pc[t] = "test"
    /\ tested' = tested \cup {<<t, local_counter[t]>>}
    /\ late_tests' = [late_tests EXCEPT ![t] = @ + (IF found THEN 1 ELSE 0)]
    /\ IF try_generate_match_optimized(prefix, local_counter[t]) # None
       THEN /\ pc' = [pc EXCEPT ![t] = "swap"]
            /\ UNCHANGED <<local_counter, local_attempts>>
       ELSE /\ local_counter' = [local_counter EXCEPT ![t] = @ + 1]
            /\ local_attempts' = [local_attempts EXCEPT ![t] = @ + 1]
            /\ pc' = [pc EXCEPT ![t] =
                        IF (local_attempts[t] + 1) % PROGRESS_REPORT_INTERVAL = 0
                        THEN "progress" ELSE "test"]
    /\ UNCHANGED <<config_vars, lock_owner, accel_vars, found, result, thread_attempts, gpu_attempts,
                   gpu_vars, coord_vars, gpu_batches, slot_writes,
                   swap_winners, late_batches>>

\* CpuTest with `local_counter += 2` after a miss: every other index of the
\* range is passed over.
CpuTest_SkipAhead(t) ==
    /\ pc[t] = "test"
    /\ tested' = tested \cup {<<t, local_counter[t]>>}
    /\ late_tests' = [late_tests EXCEPT ![t] = @ + (IF found THEN 1 ELSE 0)]
    /\ IF try_generate_match_optimized(prefix, local_counter[t]) # None
       THEN /\ pc' = [pc EXCEPT ![t] = "swap"]
            /\ UNCHANGED <<local_counter, local_attempts>>
       ELSE /\ local_counter' = [local_counter EXCEPT ![t] = @ + 2]
            /\ local_attempts' = [local_attempts EXCEPT ![t] = @ + 1]
            /\ pc' = [pc EXCEPT ![t] =
                        IF (local_attempts[t] + 1) % PROGRESS_REPORT_INTERVAL = 0
                        THEN "progress" ELSE "loop"]
    /\ UNCHANGED <<config_vars, lock_owner, accel_vars, found, result, thread_attempts, gpu_attempts,
                   gpu_vars, coord_vars, gpu_batches, slot_writes,
                   swap_winners, late_batches>>

\* CpuTest without `local_counter += 1` after a miss: the worker tests the
\* same index again.
CpuTest_NoAdvance(t) ==
    /\ pc[t] = "test"
    /\ tested' = tested \cup {<<t, local_counter[t]>>}
    /\ late_tests' = [late_tests EXCEPT ![t] = @ + (IF found THEN 1 ELSE 0)]
    /\ IF try_generate_match_optimized(prefix, local_counter[t]) # None
       THEN /\ pc' = [pc EXCEPT ![t] = "swap"]
            /\ UNCHANGED <<local_counter, local_attempts>>
       ELSE /\ local_attempts' = [local_attempts EXCEPT ![t] = @ + 1]
            /\ pc' = [pc EXCEPT ![t] =
                        IF (local_attempts[t] + 1) % PROGRESS_REPORT_INTERVAL = 0
                        THEN "progress" ELSE "loop"]
            /\ UNCHANGED local_counter
    /\ UNCHANGED <<config_vars, lock_owner, accel_vars, found, result, thread_attempts, gpu_attempts,
                   gpu_vars, coord_vars, gpu_batches, slot_writes,
                   swap_winners, late_batches>>

\* try_generate_match_optimized(&prefix, local_counter): on Some the worker
\* goes on to the swap; on None local_counter += 1, local_attempts += 1 and,
\* every PROGRESS_REPORT_INTERVAL attempts, the progress update follows.
CpuTest(t) ==
    /\ pc[t] = "test"
    /\ tested' = tested \cup {<<t, local_counter[t]>>}
    /\ late_tests' = [late_tests EXCEPT ![t] = @ + (IF found THEN 1 ELSE 0)]
    /\ IF try_generate_match_optimized(prefix, local_counter[t]) # None
       THEN /\ pc' = [pc EXCEPT ![t] = "swap"]
            /\ UNCHANGED <<local_counter, local_attempts>>
       ELSE /\ local_counter' = [local_counter EXCEPT ![t] = @ + 1]
            /\ local_attempts' = [local_attempts EXCEPT ![t] = @ + 1]
            /\ pc' = [pc EXCEPT ![t] =
                        IF (local_attempts[t] + 1) % PROGRESS_REPORT_INTERVAL = 0
                        THEN "progress" ELSE "loop"]
    /\ UNCHANGED <<config_vars, lock_owner, accel_vars, found, result, thread_attempts, gpu_attempts,
                   gpu_vars, coord_vars, gpu_batches, slot_writes,
                   swap_winners, late_batches>>

\* CpuSwap with the swap's return value ignored: every worker that found a
\* match goes on to assign the slot.
CpuSwap_NoTicket(t) ==
    /\ pc[t] = "swap"
    /\ found' = TRUE
    /\ swap_winners' = IF found THEN swap_winners
                       ELSE swap_winners \cup {CpuLabel(t)}
    /\ pc' = [pc EXCEPT ![t] = "write"]
    /\ UNCHANGED <<config_vars, lock_owner, accel_vars, result, thread_attempts, gpu_attempts,
                   local_counter, local_attempts, gpu_vars, coord_vars, tested,
                   gpu_batches, slot_writes, late_tests, late_batches>>

\* if !found.swap(true, Ordering::Relaxed) { .. } break;
CpuSwap(t) ==
    /\ pc[t] = "swap"
    /\ found' = TRUE
    /\ swap_winners' = IF found THEN swap_winners
                       ELSE swap_winners \cup {CpuLabel(t)}
    /\ pc' = [pc EXCEPT ![t] = IF found THEN "final" ELSE "write"]
    /\ UNCHANGED <<config_vars, lock_owner, accel_vars, result, thread_attempts, gpu_attempts,
                   local_counter, local_attempts, gpu_vars, coord_vars, tested,
                   gpu_batches, slot_writes, late_tests, late_batches>>

\* *result.lock().unwrap() = Some((ext_id, key_data, local_attempts + 1 ..));
CpuWrite(t) ==
    /\ pc[t] = "write"
    /\ result' = Some(CpuResult(t))
    /\ slot_writes' = Append(slot_writes, CpuLabel(t))
    /\ pc' = [pc EXCEPT ![t] = "final"]
    /\ UNCHANGED <<config_vars, lock_owner, accel_vars, found, thread_attempts, gpu_attempts,
                   local_counter, local_attempts, gpu_vars, coord_vars, tested,
                   gpu_batches, swap_winners, late_tests, late_batches>>

\* if local_attempts % PROGRESS_REPORT_INTERVAL == 0: attempts[thread_id] =
\* local_attempts under the lock (thread 0 also prints the running total).
\* CpuProgress storing into attempts[0] instead of attempts[thread_id]
CpuProgress_Slot0(t) ==
    /\ pc[t] = "progress"
    /\ thread_attempts' = [thread_attempts EXCEPT ![0] = local_attempts[t]]
    /\ pc' = [pc EXCEPT ![t] = "loop"]
    /\ UNCHANGED <<config_vars, lock_owner, accel_vars, found, result, gpu_attempts,
                   local_counter, local_attempts, gpu_vars, coord_vars, tested,
                   gpu_batches, slot_writes, swap_winners, late_tests,
                   late_batches>>

CpuProgress(t) ==
    /\ pc[t] = "progress"
    /\ thread_attempts' = [thread_attempts EXCEPT ![t] = local_attempts[t]]
    /\ pc' = [pc EXCEPT ![t] = "loop"]
    /\ UNCHANGED <<config_vars, lock_owner, accel_vars, found, result, gpu_attempts, local_counter,
                   local_attempts, gpu_vars, coord_vars, tested, gpu_batches,
                   slot_writes, swap_winners, late_tests, late_batches>>

\* Final update of this thread's attempts; the closure returns.
\* CpuFinal without the final update: the thread just ends
CpuFinal_NoStore(t) ==
    /\ pc[t] = "final"
    /\ pc' = [pc EXCEPT ![t] = "done"]
    /\ UNCHANGED <<config_vars, lock_owner, accel_vars, found, result, thread_attempts,
                   gpu_attempts, local_counter, local_attempts, gpu_vars,
                   coord_vars, tested, gpu_batches, slot_writes, swap_winners,
                   late_tests, late_batches>>

CpuFinal(t) ==
    /\ pc[t] = "final"
    /\ thread_attempts' = [thread_attempts EXCEPT ![t] = local_attempts[t]]
    /\ pc' = [pc EXCEPT ![t] = "done"]
    /\ UNCHANGED <<config_vars, lock_owner, accel_vars, found, result, gpu_attempts, local_counter,
                   local_attempts, gpu_vars, coord_vars, tested, gpu_batches,
                   slot_writes, swap_winners, late_tests, late_batches>>

\* ------------------------------------------------------------ GPU worker

\* The tuple the GPU worker stores in the result slot.
GpuResult ==
    [ext_id   |-> hash_to_extension_id(Sha256Digest(gpu_match[1].key_data)),
     key_data |-> gpu_match[1].key_data,
     attempts |-> local_gpu_attempts,
     winner   |-> GpuLabel]

\* GpuLoad that never reads the flag: `loop`, as in the GPU-only runners.
GpuLoad_NoPoll ==
    /\ gpu_pc = "loop"
    /\ batch_id < MaxBatches
    /\ gpu_pc' = "batch"
    /\ UNCHANGED <<config_vars, lock_owner, accel_vars, found, result, thread_attempts, gpu_attempts,
                   cpu_vars, batch_id, local_gpu_attempts, gpu_match,
                   coord_vars, tested, gpu_batches, slot_writes, swap_winners,
                   late_tests, late_batches>>

\* while !found.load(Ordering::Relaxed)
GpuLoad ==
    /\ gpu_pc = "loop"
    /\ found \/ batch_id < MaxBatches
    /\ gpu_pc' = IF found THEN "final" ELSE "batch"
    /\ UNCHANGED <<config_vars, lock_owner, accel_vars, found, result, thread_attempts, gpu_attempts,
                   cpu_vars, batch_id, local_gpu_attempts, gpu_match,
                   coord_vars, tested, gpu_batches, slot_writes, swap_winners,
                   late_tests, late_batches>>

\* match gpu.search_vanity_id(&prefix, batch_start_counter, gpu_batch_size):
\* the call blocks until the batch is done.
\* GpuBatch whose Err arm also stores true to the found flag
GpuBatch_ErrSetsFound ==
    /\ gpu_pc = "batch"
    /\ \E r \in search_vanity_id(prefix,
                    batch_start_counter(batch_id, gpu_batch_size),
                    gpu_batch_size) :
          CASE r.kind = "Some" ->
                 /\ local_gpu_attempts' = local_gpu_attempts
                       + (r.counter
                            - batch_start_counter(batch_id, gpu_batch_size)) + 1
                 /\ gpu_match' = Some([counter |-> r.counter,
                                       key_data |-> r.key_data])
                 /\ gpu_pc' = "swap"
                 /\ UNCHANGED <<batch_id, gpu_attempts, found>>
            [] r.kind = "None" ->
                 /\ local_gpu_attempts' = local_gpu_attempts + gpu_batch_size
                 /\ batch_id' = batch_id + 1
                 /\ gpu_attempts' = local_gpu_attempts + gpu_batch_size
                 /\ gpu_pc' = "loop"
                 /\ UNCHANGED <<gpu_match, found>>
            [] r.kind = "Err" ->
                 /\ gpu_pc' = "final"
                 /\ found' = TRUE
                 /\ UNCHANGED <<batch_id, local_gpu_attempts, gpu_match,
                                gpu_attempts>>
    /\ gpu_batches' = gpu_batches
                        \cup {batch_start_counter(batch_id, gpu_batch_size)}
    /\ late_batches' = late_batches + (IF found THEN 1 ELSE 0)
    /\ UNCHANGED <<config_vars, lock_owner, accel_vars, result, thread_attempts, cpu_vars,
                   coord_vars, tested, slot_writes, swap_winners, late_tests>>

GpuBatch ==
    /\ gpu_pc = "batch"
    /\ \E r \in search_vanity_id(prefix,
                    batch_start_counter(batch_id, gpu_batch_size),
                    gpu_batch_size) :
          CASE r.kind = "Some" ->
                 /\ local_gpu_attempts' = local_gpu_attempts
                       + (r.counter
                            - batch_start_counter(batch_id, gpu_batch_size)) + 1
                 /\ gpu_match' = Some([counter |-> r.counter,
                                       key_data |-> r.key_data])
                 /\ gpu_pc' = "swap"
                 /\ UNCHANGED <<batch_id, gpu_attempts>>
            [] r.kind = "None" ->
                 /\ local_gpu_attempts' = local_gpu_attempts + gpu_batch_size
                 /\ batch_id' = batch_id + 1
                 /\ gpu_attempts' = local_gpu_attempts + gpu_batch_size
                 /\ gpu_pc' = "loop"
                 /\ UNCHANGED gpu_match
            [] r.kind = "Err" ->
                 /\ gpu_pc' = "final"
                 /\ UNCHANGED <<batch_id, local_gpu_attempts, gpu_match,
                                gpu_attempts>>
    /\ gpu_batches' = gpu_batches
                        \cup {batch_start_counter(batch_id, gpu_batch_size)}
    /\ late_batches' = late_batches + (IF found THEN 1 ELSE 0)
    /\ UNCHANGED <<config_vars, lock_owner, accel_vars, found, result, thread_attempts, cpu_vars,
                   coord_vars, tested, slot_writes, swap_winners, late_tests>>

\* GpuSwap with fetch_xor(true) in place of swap(true): a second worker's
\* update clears the flag.
GpuSwap_Toggle ==
    /\ gpu_pc = "swap"
    /\ found' = ~found
    /\ swap_winners' = IF found THEN swap_winners
                       ELSE swap_winners \cup {GpuLabel}
    /\ gpu_pc' = IF found THEN "final" ELSE "write"
    /\ UNCHANGED <<config_vars, lock_owner, accel_vars, result, thread_attempts, gpu_attempts,
                   cpu_vars, batch_id, local_gpu_attempts, gpu_match,
                   coord_vars, tested, gpu_batches, slot_writes, late_tests,
                   late_batches>>

\* if !found.swap(true, Ordering::Relaxed) { .. } break;
GpuSwap ==
    /\ gpu_pc = "swap"
    /\ found' = TRUE
    /\ swap_winners' = IF found THEN swap_winners
                       ELSE swap_winners \cup {GpuLabel}
    /\ gpu_pc' = IF found THEN "final" ELSE "write"
    /\ UNCHANGED <<config_vars, lock_owner, accel_vars, result, thread_attempts, gpu_attempts,
                   cpu_vars, batch_id, local_gpu_attempts, gpu_match,
                   coord_vars, tested, gpu_batches, slot_writes, late_tests,
                   late_batches>>

\* *result.lock().unwrap() = Some((hash_to_extension_id(..), key_data,
\* local_gpu_attempts, "GPU".to_string()));
GpuWrite ==
    /\ gpu_pc = "write"
    /\ result' = Some(GpuResult)
    /\ slot_writes' = Append(slot_writes, GpuLabel)
    /\ gpu_pc' = "final"
    /\ UNCHANGED <<config_vars, lock_owner, accel_vars, found, thread_attempts, gpu_attempts, cpu_vars,
                   batch_id, local_gpu_attempts, gpu_match, coord_vars, tested,
                   gpu_batches, swap_winners, late_tests, late_batches>>

\* Final update: *gpu_attempts.lock().unwrap() = local_gpu_attempts; the
\* closure then ends and drops the generator it owns.
GpuFinal ==
    /\ gpu_pc = "final"
    /\ gpu_attempts' = local_gpu_attempts
    /\ gpu_handle' = "dropped"
    /\ cleanups' = cleanups + 1
    /\ gpu_pc' = "done"
    /\ UNCHANGED <<config_vars, lock_owner, found, result, thread_attempts, cpu_vars,
                   batch_id, local_gpu_attempts, gpu_match, coord_vars, tested,
                   gpu_batches, slot_writes, swap_winners, late_tests,
                   late_batches>>

\* ----------------------------------------------------------- specification

CpuStep(t) ==
    /\ t \in Threads
    /\ \/ CpuLoad(t)
       \/ CpuTest(t)
       \/ CpuSwap(t)
       \/ CpuWrite(t)
       \/ CpuProgress(t)
       \/ CpuFinal(t)

GpuStep ==
    \/ GpuLoad
    \/ GpuBatch
    \/ GpuSwap
    \/ GpuWrite
    \/ GpuFinal

Next ==
    \/ StartCpu
    \/ StartHybrid
    \/ InitFails
    \/ JoinAll
    \/ TakeResult
    \/ \E t \in Threads : CpuLoad(t)
    \/ \E t \in Threads : CpuTest(t)
    \/ \E t \in Threads : CpuSwap(t)
    \/ \E t \in Threads : CpuWrite(t)
    \/ \E t \in Threads : CpuProgress(t)
    \/ \E t \in Threads : CpuFinal(t)
    \/ GpuLoad
    \/ GpuBatch
    \/ GpuSwap
    \/ GpuWrite
    \/ GpuFinal

Spec == Init /\ [][Next]_vars

\* Every spawned thread is an OS thread that keeps being scheduled, a batch
\* call in flight returns, and the coordinator's joins return once the
\* threads have ended.
FairSpec ==
    /\ Spec
    /\ \A t \in 0..(MaxThreads - 1) : WF_vars(CpuStep(t))
    /\ WF_vars(GpuStep)
    /\ WF_vars(JoinAll)
    /\ WF_vars(TakeResult)

\* The spawn of run_vanity_id_generator alone, for every thread count of
\* 1..=1024: the start counters the workers are given.
PartitionInit ==
    /\ mode = "cpu"
    /\ prefix = <<>>
    /\ num_threads \in 1..1024
    /\ gpu_batch_size = SmallBatch
    /\ RunInit

PartitionNext == StartCpu

SpecPartition == PartitionInit /\ [][PartitionNext]_vars

\* run_vanity_id_generator alone, each worker followed for one candidate
\* test more than the THREAD_RANGE_SIZE indices from its start counter.
OverrunInit ==
    /\ mode = "cpu"
    /\ prefix \in Prefixes
    /\ num_threads \in 1..MaxThreads
    /\ gpu_batch_size = SmallBatch
    /\ RunInit

OverrunNext ==
    \/ StartCpu
    \/ JoinAll
    \/ TakeResult
    \/ \E t \in Threads : CpuLoadUpTo(t, THREAD_RANGE_SIZE + 1)
    \/ \E t \in Threads : CpuTest(t)
    \/ \E t \in Threads : CpuSwap(t)
    \/ \E t \in Threads : CpuWrite(t)
    \/ \E t \in Threads : CpuProgress(t)
    \/ \E t \in Threads : CpuFinal(t)

SpecOverrun == OverrunInit /\ [][OverrunNext]_vars

\* run_vanity_id_generator(prefix, 1): one worker, followed over the indices
\* [0, RangeBound), for the empty prefix, every one-letter prefix, and "bb",
\* which no candidate near 0 matches.
SinglePrefixes ==
    {<<>>, <<98, 98>>} \cup {<<MAPPING[i]>> : i \in 1..16}

SingleInit ==
    /\ mode = "cpu"
    /\ prefix \in SinglePrefixes
    /\ num_threads = 1
    /\ gpu_batch_size = SmallBatch
    /\ RunInit

SingleStep ==
    \/ CpuLoadUpTo(0, RangeBound)
    \/ CpuTest(0)
    \/ CpuSwap(0)
    \/ CpuWrite(0)
    \/ CpuProgress(0)
    \/ CpuFinal(0)

SingleNext ==
    \/ StartCpu
    \/ JoinAll
    \/ TakeResult
    \/ CpuLoadUpTo(0, RangeBound)
    \/ CpuTest(0)
    \/ CpuSwap(0)
    \/ CpuWrite(0)
    \/ CpuProgress(0)
    \/ CpuFinal(0)

\* The worker thread keeps being scheduled and the coordinator's join and
\* take return.
SpecSingle ==
    /\ SingleInit /\ [][SingleNext]_vars
    /\ WF_vars(SingleStep)
    /\ WF_vars(JoinAll)
    /\ WF_vars(TakeResult)

\* main passes cli.prefix, any string, to the run unexamined: the runs of
\* Spec, and also runs whose prefix is "q" or "oK".
CliPrefixes == Prefixes \cup {<<113>>, <<111, 75>>}

AnyPrefixInit ==
    /\ mode \in {"cpu", "hybrid"}
    /\ prefix \in CliPrefixes
    /\ num_threads \in 1..MaxThreads
    /\ gpu_batch_size = SmallBatch
    /\ RunInit

SpecAnyPrefix == AnyPrefixInit /\ [][Next]_vars

\* ------------------------------------------------------------ GPU-only run
\* run_gpu_vanity_id_generator / run_cuda_vanity_id_generator: new()
\* returned Ok and the main thread enters its loop.
StartGpuOnly ==
    /\ run_state = "idle"
    /\ mode = "gpu"
    /\ run_state' = "running"
    /\ gpu_handle' = "live"
    /\ gpu_pc' = "main_loop"
    /\ UNCHANGED <<config_vars, lock_owner, cleanups, found, result, thread_attempts,
                   gpu_attempts, cpu_vars, batch_id, local_gpu_attempts,
                   gpu_match, result_data, total, tested, gpu_batches,
                   slot_writes, swap_winners, late_tests, late_batches>>

\* One iteration of the main thread's loop, while the batch starts below
\* cap: batch_start_counter = batch_id * batch_size and the match on
\* gpu.search_vanity_id. Ok(Some): total_attempts is completed, the
\* identifier is computed from the returned key data, the result is printed
\* and saved, and the function returns, which drops the generator. Ok(None):
\* the next batch. Err: std::process::exit(1), which runs no destructor.
\* the GPU-only loop whose Err arm logs the error and goes round again
GpuOnlyBatchUpTo_ErrRetries(cap) ==
    /\ gpu_pc = "main_loop"
    /\ batch_start_counter(batch_id, gpu_batch_size) < cap
    /\ \E r \in search_vanity_id(prefix,
                    batch_start_counter(batch_id, gpu_batch_size),
                    gpu_batch_size) :
          CASE r.kind = "Some" ->
                 /\ local_gpu_attempts' = local_gpu_attempts
                       + (r.counter
                            - batch_start_counter(batch_id, gpu_batch_size)) + 1
                 /\ gpu_match' = Some([counter |-> r.counter,
                                       key_data |-> r.key_data])
                 /\ result_data' =
                       Some([ext_id |-> hash_to_extension_id(
                                            Sha256Digest(r.key_data)),
                             key_data |-> r.key_data])
                 /\ total' = local_gpu_attempts
                       + (r.counter
                            - batch_start_counter(batch_id, gpu_batch_size)) + 1
                 /\ run_state' = "completed"
                 /\ gpu_pc' = "done"
                 /\ gpu_handle' = "dropped"
                 /\ cleanups' = cleanups + 1
                 /\ UNCHANGED batch_id
            [] r.kind = "None" ->
                 /\ local_gpu_attempts' = local_gpu_attempts + gpu_batch_size
                 /\ batch_id' = batch_id + 1
                 /\ UNCHANGED <<gpu_match, gpu_pc, coord_vars, accel_vars>>
            [] r.kind = "Err" ->
                 /\ UNCHANGED <<batch_id, local_gpu_attempts, gpu_match,
                                gpu_pc, coord_vars, accel_vars>>
    /\ gpu_batches' = gpu_batches
                        \cup {batch_start_counter(batch_id, gpu_batch_size)}
    /\ UNCHANGED <<config_vars, lock_owner, found, result, thread_attempts,
                   gpu_attempts, cpu_vars, tested, slot_writes, swap_winners,
                   late_tests, late_batches>>

GpuOnlyBatchUpTo(cap) ==
    /\ gpu_pc = "main_loop"
    /\ batch_start_counter(batch_id, gpu_batch_size) < cap
    /\ \E r \in search_vanity_id(prefix,
                    batch_start_counter(batch_id, gpu_batch_size),
                    gpu_batch_size) :
          CASE r.kind = "Some" ->
                 /\ local_gpu_attempts' = local_gpu_attempts
                       + (r.counter
                            - batch_start_counter(batch_id, gpu_batch_size)) + 1
                 /\ gpu_match' = Some([counter |-> r.counter,
                                       key_data |-> r.key_data])
                 /\ result_data' =
                       Some([ext_id |-> hash_to_extension_id(
                                            Sha256Digest(r.key_data)),
                             key_data |-> r.key_data])
                 /\ total' = local_gpu_attempts
                       + (r.counter
                            - batch_start_counter(batch_id, gpu_batch_size)) + 1
                 /\ run_state' = "completed"
                 /\ gpu_pc' = "done"
                 /\ gpu_handle' = "dropped"
                 /\ cleanups' = cleanups + 1
                 /\ UNCHANGED batch_id
            [] r.kind = "None" ->
                 /\ local_gpu_attempts' = local_gpu_attempts + gpu_batch_size
                 /\ batch_id' = batch_id + 1
                 /\ UNCHANGED <<gpu_match, gpu_pc, coord_vars, accel_vars>>
            [] r.kind = "Err" ->
                 /\ run_state' = "aborted"
                 /\ gpu_pc' = "done"
                 /\ UNCHANGED <<batch_id, local_gpu_attempts, gpu_match,
                                result_data, total, accel_vars>>
    /\ gpu_batches' = gpu_batches
                        \cup {batch_start_counter(batch_id, gpu_batch_size)}
    /\ UNCHANGED <<config_vars, lock_owner, found, result, thread_attempts, gpu_attempts,
                   cpu_vars, tested, slot_writes, swap_winners, late_tests,
                   late_batches>>

GpuOnlyBatch == GpuOnlyBatchUpTo(MaxBatches * gpu_batch_size)

\* GPU-only runs for every batch size 1..MaxBatchSize, followed while the
\* batches start below RangeBound.
GpuOnlyInit ==
    /\ mode = "gpu"
    /\ prefix \in SinglePrefixes
    /\ num_threads = 0
    /\ gpu_batch_size \in 1..MaxBatchSize
    /\ RunInit

GpuOnlyNext ==
    \/ StartGpuOnly
    \/ InitFails
    \/ GpuOnlyBatchUpTo(RangeBound)

\* The main thread keeps running and every batch call returns.
SpecGpuOnly ==
    /\ GpuOnlyInit /\ [][GpuOnlyNext]_vars
    /\ WF_vars(GpuOnlyBatchUpTo(RangeBound))

\* The runs that need the accelerator: GPU-only and hybrid.
AccelInit ==
    /\ mode \in {"gpu", "hybrid"}
    /\ prefix \in Prefixes
    /\ num_threads \in (IF mode = "gpu" THEN {0} ELSE 1..MaxThreads)
    /\ gpu_batch_size \in BatchSizes
    /\ RunInit

AccelNext ==
    \/ StartHybrid
    \/ StartGpuOnly
    \/ InitFails
    \/ GpuOnlyBatch
    \/ JoinAll
    \/ TakeResult
    \/ \E t \in Threads : CpuLoad(t)
    \/ \E t \in Threads : CpuTest(t)
    \/ \E t \in Threads : CpuSwap(t)
    \/ \E t \in Threads : CpuWrite(t)
    \/ \E t \in Threads : CpuProgress(t)
    \/ \E t \in Threads : CpuFinal(t)
    \/ GpuLoad
    \/ GpuBatch
    \/ GpuSwap
    \/ GpuWrite
    \/ GpuFinal

SpecAccel == AccelInit /\ [][AccelNext]_vars

\* ------------------------------------------------------------------- main
\* cpu_threads of the hybrid branch of main
cpu_threads(cli) ==
    IF cli.single_thread THEN 1
    ELSE IF cli.cores \div 4 > 1 THEN cli.cores \div 4 ELSE 1

\* thread_count of the CPU-only branch of main
thread_count(cli) == IF cli.single_thread THEN 1 ELSE cli.cores

\* the number of CPU threads main asks its runner for
main_threads(cli) ==
    IF cli.hybrid THEN cpu_threads(cli) ELSE thread_count(cli)

\* Cli, without --gpu: --cores, --single-thread, --hybrid, for the thread
\* counts of at most MaxThreads.
CliArgs ==
    {cli \in [op : {"main"}, cores : 0..(4 * MaxThreads),
              single_thread : BOOLEAN, hybrid : BOOLEAN] :
        main_threads(cli) <= MaxThreads}

\* main: the runner and the thread count follow from the command line.
MainInit ==
    /\ call \in CliArgs
    /\ mode = (IF call.hybrid THEN "hybrid" ELSE "cpu")
    /\ prefix \in Prefixes
    /\ num_threads = main_threads(call)
    /\ gpu_batch_size = SmallBatch
    /\ RunStateInit

SpecMain == MainInit /\ [][Next]_vars

\* ------------------------------------------------ the functions on their own
\* Each function is called at most MaxCalls times on one input.
MaxCalls == 2

\* [u8; 32] digests: those of the first candidates, and blocks with every
\* nibble value in both positions.
ZeroDigest    == [k \in 1..32 |-> 0] \o <<>>
OnesDigest    == [k \in 1..32 |-> 255] \o <<>>
PatternDigest == [k \in 1..32 |-> 16 * ((k - 1) % 16) + (15 - ((k - 1) % 16))] \o <<>>

\* the digest with each of the bytes 16..31 complemented
FlipTail(hash) ==
    [k \in 1..32 |-> IF k <= 16 THEN hash[k] ELSE 255 - hash[k]] \o <<>>

\* the digest with the low nibble of byte byte_idx complemented
FlipLowNibble(hash, byte_idx) ==
    [k \in 1..32 |->
        IF k = byte_idx + 1
        THEN 16 * (hash[k] \div 16) + (15 - (hash[k] % 16))
        ELSE hash[k]] \o <<>>

Digests ==
    {Candidate(c).hash : c \in 0..3}
      \cup {ZeroDigest, OnesDigest, PatternDigest, FlipTail(PatternDigest)}

\* the next letter of the alphabet, cyclically
Bump(c) == 97 + ((c - 97 + 1) % 16)

\* &str prefixes tried against digest hash: the letters of all its 32 bytes
\* cut at every length 0..64 and extended to 65 and 66, the same with the
\* last or the first letter changed, odd lengths ending in the letter of the
\* low nibble, and strings outside the alphabet.
PrefixArgs(hash) ==
    LET all == IdChars(hash, 32) IN
    {SubSeq(all, 1, n) : n \in 0..64}
      \cup {all \o <<97>>, all \o <<97, 97>>}
      \cup {[SubSeq(all, 1, n) EXCEPT ![n] = Bump(@)] : n \in 1..34}
      \cup {[SubSeq(all, 1, n) EXCEPT ![1] = Bump(@)] : n \in 1..34}
      \cup {Append(SubSeq(all, 1, 2 * j), all[2 * j + 2]) : j \in 0..16}
      \cup {<<113>>, <<111, 75>>}

\* u64 indices, among them values of one, two, three and four bytes
Counters ==
    {0, 1, 2, 255, 256, 257, 4095, 65535, 65536, 16777219, 2147483647}

CallInputs ==
    UNION {{[op |-> "none", calls |-> 0, hash |-> h, prefix |-> p,
             counter |-> 0] : p \in PrefixArgs(h)} : h \in Digests}
      \cup {[op |-> "none", calls |-> 0, hash |-> ZeroDigest, prefix |-> <<>>,
              counter |-> c] : c \in Counters}

CallsInit ==
    /\ mode = "cpu"
    /\ prefix = <<>>
    /\ num_threads = 0
    /\ gpu_batch_size = SmallBatch
    /\ RunStateInit
    /\ call \in CallInputs

\* One call of function op on the input: what it returned, and what the
\* call before returned.
Called(op, ret) ==
    /\ call.op \in {"none", op}
    /\ call.calls < MaxCalls
    /\ call' = [op |-> op, calls |-> call.calls + 1, hash |-> call.hash,
                prefix |-> call.prefix, counter |-> call.counter,
                ret |-> ret,
                prev |-> IF call.op = "none" THEN ret ELSE call.ret]
    /\ UNCHANGED <<mode, prefix, num_threads, gpu_batch_size, accel_vars,
                   lock_owner, found, result, thread_attempts, gpu_attempts, cpu_vars,
                   gpu_vars,
                   coord_vars, tested, gpu_batches, slot_writes, swap_winners,
                   late_tests, late_batches>>

CallMatches ==
    Called("hash_matches_prefix_optimized",
           hash_matches_prefix_optimized(call.hash, call.prefix))

CallToId ==
    Called("hash_to_extension_id", hash_to_extension_id(call.hash))

CallGenerate ==
    Called("generate_key_data", generate_key_data(call.counter))

CallsNext ==
    \/ CallMatches
    \/ CallToId
    \/ CallGenerate

SpecCalls == CallsInit /\ [][CallsNext]_vars

\* -------------------------------------------------------------- properties

\* The identifier of a candidate by the naive definition:
\* to_identifier(digest(key_data)).
IdentifierOf(key_data) == hash_to_extension_id(Sha256Digest(key_data))

\* What worker w has in hand as its match: the candidate of the counter a
\* CPU worker stopped at, the candidate the accelerator returned to the GPU
\* worker.
MatchOf(w) ==
    IF w = GpuLabel THEN gpu_match[1].key_data
    ELSE generate_key_data(local_counter[w[2]])

\* Worker t found a match and its swap returned true.
LostRace(t) ==
    /\ pc[t] = "done"
    /\ <<t, local_counter[t]>> \in tested
    /\ try_generate_match_optimized(prefix, local_counter[t]) # None
    /\ CpuLabel(t) \notin swap_winners

\* C1: under every interleaving the result slot is assigned at most once per
\* run, and only by the worker whose found.swap(true) returned false; a worker
\* that found a match but whose swap returned true never assigns it.
C1_SingleWriter ==
    /\ Len(slot_writes) <= 1
    /\ Cardinality(swap_winners) <= 1
    /\ \A i \in 1..Len(slot_writes) : slot_writes[i] \in swap_winners
    /\ \A t \in Threads :
          (pc[t] \in {"final", "done"} /\ CpuLabel(t) \notin swap_winners)
             => \A i \in 1..Len(slot_writes) : slot_writes[i] # CpuLabel(t)

\* C1 witness: a worker found a match, lost the race and ended, and the slot
\* was assigned once by the winner.
C1_Witness ==
    /\ Len(slot_writes) = 1
    /\ \E t \in Threads : LostRace(t)

\* The contents of an occupied slot are those of the one swap winner.
HoldsWinnersMatch(slot) ==
    \E w \in swap_winners :
        /\ swap_winners = {w}
        /\ slot[1].key_data = MatchOf(w)
        /\ slot[1].ext_id = IdentifierOf(MatchOf(w))
        /\ mode = "hybrid" => slot[1].winner = w

\* C2: when the coordinator takes the result slot, after joining all workers,
\* the slot is occupied if and only if the found-flag is true, and it holds
\* the identifier, the candidate and (hybrid) the label of the worker whose
\* test-and-set succeeded; that is what is reported.
C2_WinnerReported ==
    /\ run_state = "joined" =>
          /\ (result # None) <=> found
          /\ result # None => HoldsWinnersMatch(result)
    /\ run_state = "completed" =>
          /\ (result_data # None) <=> found
          /\ result_data # None => HoldsWinnersMatch(result_data)

\* C2 witness: the coordinator has taken a result while another worker that
\* also found a match had lost the race.
C2_Witness ==
    /\ run_state = "completed"
    /\ result_data # None
    /\ \E t \in Threads : LostRace(t)

C4_FoundMonotonic == (~found) /\ [][found => found']_vars

\* C4 witness: the flag is still true after a second worker's swap and after
\* the coordinator has finished.
C4_Witness ==
    /\ found
    /\ run_state = "completed"
    /\ mode = "hybrid"
    /\ \E t \in Threads : LostRace(t)

\* C5: in a CPU-only run no two workers ever test the same search index
\* (each worker's tests stay inside its own range), also after a worker has
\* advanced its cursor THREAD_RANGE_SIZE times.
C5_NoSharedIndex ==
    mode = "cpu" =>
        \A p \in tested : \A q \in tested : p[2] = q[2] => p[1] = q[1]

\* The index range spawned worker t is assigned: THREAD_RANGE_SIZE counters
\* from its start counter.
RangeOf(t) == local_counter[t]..(local_counter[t] + THREAD_RANGE_SIZE - 1)

UnionOfRanges == UNION {RangeOf(t) : t \in Threads}

C7_HalvesDisjoint ==
    mode = "hybrid" =>
        \A b \in gpu_batches : \A p \in tested :
            ~(b <= p[2] /\ p[2] < b + gpu_batch_size)

\* C8: once a worker has set the found-flag, with every thread scheduled and
\* the batch in flight returning, every worker leaves its loop and ends, the
\* joins return and the run completes with the recorded result.
C8_AllHalt ==
    found ~> (/\ run_state = "completed"
              /\ result_data # None
              /\ \A t \in Threads : pc[t] = "done"
              /\ mode = "hybrid" => gpu_pc = "done")

\* C8 witness: a run completed with a result in which one CPU worker ended
\* because it read the flag another worker had set.
C8_Witness ==
    /\ run_state = "completed"
    /\ result_data # None
    /\ \E t \in Threads :
          /\ pc[t] = "done"
          /\ CpuLabel(t) \notin swap_winners
          /\ <<t, local_counter[t]>> \notin tested

\* C9: a CPU worker polls the flag at each iteration: once the flag is true
\* it begins no further candidate test, so it completes at most the one test
\* that was in progress.
C9_CpuStopsPromptly == \A t \in Threads : late_tests[t] <= 1

\* C9 witness: a worker completed the test it had in progress when the flag
\* was set, missed, and ended without another test.
C9_Witness ==
    \E t \in Threads :
        /\ late_tests[t] = 1
        /\ pc[t] = "done"
        /\ <<t, local_counter[t]>> \notin tested

\* C10: the GPU worker reads the flag between batch calls only: it issues no
\* new search_vanity_id call after reading the flag set, so with the flag set
\* it completes at most the one batch that was in flight.
C10_GpuStopsAfterBatch == late_batches <= 1

\* C10 witness: a batch that was in flight when a CPU worker set the flag
\* returned without a match, and the GPU worker ended at its next read.
C10_Witness ==
    /\ late_batches = 1
    /\ gpu_pc = "done"
    /\ gpu_match = None
    /\ batch_id > 0

\* Some index of [0, n) yields an identifier that starts with the prefix.
HasMatchBelow(n) ==
    \E i \in 0..(n - 1) :
        StartsWith(IdentifierOf(generate_key_data(i)), prefix)

\* C11: if some index of [0, RangeBound) yields an identifier that starts
\* with the prefix, a started single-worker CPU run terminates, and its
\* recorded result is a match whose index lies in [0, RangeBound).
C11_SingleTerminates ==
    (/\ mode = "cpu" /\ num_threads = 1
     /\ run_state = "running"
     /\ HasMatchBelow(RangeBound))
      ~> (/\ run_state = "completed"
          /\ pc[0] = "done"
          /\ result_data # None
          /\ StartsWith(result_data[1].ext_id, prefix)
          /\ result_data[1].ext_id = IdentifierOf(result_data[1].key_data)
          /\ \E i \in 0..(RangeBound - 1) :
                 result_data[1].key_data = generate_key_data(i))

\* C11 witness: a single-worker run completed with a match it reached after
\* passing over more than ten candidates.
C11_Witness ==
    /\ num_threads = 1
    /\ run_state = "completed"
    /\ result_data # None
    /\ local_attempts[0] > 10
    /\ StartsWith(result_data[1].ext_id, prefix)

\* The first index of CPU worker t: thread_start_counter of the run's mode.
WorkerStart(t) ==
    IF mode = "hybrid" THEN hybrid_thread_start_counter(t)
    ELSE thread_start_counter(t)

\* The indices CPU worker t has tested so far.
TestedBy(t) == {x[2] : x \in {y \in tested : y[1] = t}}

\* Worker t's cursor is its start plus its number of misses; what it has
\* tested is the run of indices from its start up to the cursor, all below
\* the cursor are misses, and a worker that has a match holds it at the
\* cursor.
CursorInOrder(t) ==
    LET start  == WorkerStart(t)
        cursor == local_counter[t]
    IN  /\ cursor = start + local_attempts[t]
        /\ TestedBy(t) \in {start..(cursor - 1), start..cursor}
        /\ \A i \in start..(cursor - 1) :
               try_generate_match_optimized(prefix, i) = None
        /\ cursor \in TestedBy(t)
              => try_generate_match_optimized(prefix, cursor) # None
        /\ pc[t] \in {"swap", "write"} => cursor \in TestedBy(t)

\* A test by worker t is of the index at its cursor, which it has not tested
\* before, which is above every index it has tested, and which is its start
\* or the successor of the index it tested last.
TestsNextIndex(t) ==
    (pc[t] = "test" /\ pc'[t] # "test")
      => /\ <<t, local_counter[t]>> \notin tested
         /\ tested' = tested \cup {<<t, local_counter[t]>>}
         /\ \A i \in TestedBy(t) : i < local_counter[t]
         /\ \/ local_counter[t] = WorkerStart(t)
            \/ <<t, local_counter[t] - 1>> \in tested

\* C12: each CPU worker tests start, start+1, start+2, ... in strictly
\* increasing order, with no gaps and no repeats, so the first match a
\* worker finds is the smallest matching index at or after its start (with
\* one worker, whose start is 0, the smallest matching index overall).
C12_CursorOrder ==
    /\ [](\A t \in Threads : pc[t] # "unspawned" => CursorInOrder(t))
    /\ [][\A t \in Threads : TestsNextIndex(t)]_vars

\* C12 witness: a worker holds a match it found after more than ten misses,
\* having tested every index from its start to the match.
C12_Witness ==
    \E t \in Threads :
        /\ pc[t] = "swap"
        /\ local_attempts[t] > 10
        /\ TestedBy(t) = WorkerStart(t)..local_counter[t]
        /\ try_generate_match_optimized(prefix, local_counter[t]) # None

\* Some character of the prefix is outside the alphabet a..p.
PrefixOutsideAlphabet ==
    \E k \in 1..Len(prefix) : prefix[k] \notin {MAPPING[i] : i \in 1..16}

\* C13: a prefix with a character outside a..p is rejected before the run
\* starts: the run never leaves idle except to abort, no worker is spawned
\* and no candidate is tested for it.
C13_BadPrefixRejected ==
    PrefixOutsideAlphabet
      => /\ run_state \in {"idle", "aborted"}
         /\ \A t \in Threads : pc[t] = "unspawned"
         /\ gpu_pc = "unspawned"
         /\ tested = {}
         /\ gpu_batches = {}

\* C14: a worker count of zero is rejected before the run starts: such a run
\* never starts, and in particular never ends normally, joins returned, with
\* an empty result slot.
C14_ZeroWorkersRejected ==
    num_threads = 0
      => /\ run_state \in {"idle", "aborted"}
         /\ ~(run_state = "completed" /\ result_data = None)

\* C15: for a prefix of length 0..32, hash_matches_prefix_optimized returns
\* true exactly when the identifier of the digest starts with the prefix
\* (and never fails); the empty prefix matches every digest; for an odd
\* length the low nibble of the last byte compared has no influence.
C15_MatchesIffStartsWith ==
    (call.op = "hash_matches_prefix_optimized" /\ Len(call.prefix) <= 32)
      => /\ call.ret \in {"true", "false"}
         /\ (call.ret = "true")
              <=> StartsWith(hash_to_extension_id(call.hash), call.prefix)
         /\ call.prefix = <<>> => call.ret = "true"
         /\ Len(call.prefix) % 2 = 1
              => call.ret = hash_matches_prefix_optimized(
                                FlipLowNibble(call.hash, Len(call.prefix) \div 2),
                                call.prefix)

\* C15 witness: a prefix of 31 letters matched, whose last letter is the
\* letter of the high nibble of byte 15 and not that of its low nibble.
C15_Witness ==
    /\ call.op = "hash_matches_prefix_optimized"
    /\ Len(call.prefix) = 31
    /\ call.ret = "true"
    /\ call.prefix[31] = MAPPING[(call.hash[16] \div 16) + 1]
    /\ call.prefix[31] # MAPPING[(call.hash[16] % 16) + 1]

\* C16: for a prefix longer than 32 characters the prefix test returns
\* false, whatever the digest, and does not fail.
C16_LongPrefixNeverMatches ==
    (call.op = "hash_matches_prefix_optimized" /\ Len(call.prefix) > 32)
      => call.ret = "false"

\* C17: hash_to_extension_id yields exactly 32 characters, all in a..p;
\* characters 2k and 2k+1 are the letters of the high and of the low nibble
\* of byte k, for the first 16 bytes; bytes 16..31 have no influence.
C17_IdentifierShape ==
    call.op = "hash_to_extension_id"
      => /\ Len(call.ret) = 32
         /\ \A n \in 1..32 : call.ret[n] \in 97..112
         /\ \A k \in 0..15 :
               /\ call.ret[2 * k + 1] = MAPPING[(call.hash[k + 1] \div 16) + 1]
               /\ call.ret[2 * k + 2] = MAPPING[(call.hash[k + 1] % 16) + 1]
         /\ hash_to_extension_id(FlipTail(call.hash)) = call.ret

\* C17 witness: the identifier of a digest whose first byte has different
\* nibbles and whose bytes 16..31 differ from bytes 0..15.
C17_Witness ==
    /\ call.op = "hash_to_extension_id"
    /\ call.hash[1] \div 16 # call.hash[1] % 16
    /\ call.hash[17] # call.hash[1]
    /\ call.ret[1] = MAPPING[(call.hash[1] \div 16) + 1]

\* bit b of the unsigned word x
Bit(x, b) == (x \div (2^b)) % 2

\* C18: two calls of generate_key_data with the same index return the same
\* 32 bytes; bytes 0..7 are the index in little-endian order, and byte i,
\* i in 8..31, is the low 8 bits of (index >> (i % 8)) XOR i.
C18_KeyDataLayout ==
    call.op = "generate_key_data"
      => /\ call.prev = call.ret
         /\ Len(call.ret) = 32
         /\ \A k \in 1..32 : call.ret[k] \in 0..255
         /\ call.ret[1] + 256 * (call.ret[2] + 256 * (call.ret[3]
                + 256 * call.ret[4])) = call.counter
         /\ \A k \in 5..8 : call.ret[k] = 0
         /\ \A i \in 8..31 : \A b \in 0..7 :
               Bit(call.ret[i + 1], b)
                 = (Bit(call.counter, b + (i % 8)) + Bit(i, b)) % 2

\* C18 witness: a second call on an index of four bytes.
C18_Witness ==
    /\ call.op = "generate_key_data"
    /\ call.calls = 2
    /\ call.counter >= 16777216
    /\ call.ret[4] # 0
    /\ call.ret[1] # call.ret[4]

\* a CPU-only run with one worker and the empty prefix
EmptyPrefixSingle ==
    mode = "cpu" /\ num_threads = 1 /\ prefix = <<>>

\* C19: with the empty prefix and one worker, index 0 is accepted as the
\* match: the run completes, index 0 is the one candidate tested, the
\* reported candidate is generate_key_data(0) and the reported identifier
\* is the identifier of its digest.
C19_FirstCandidateAccepted ==
    /\ [](EmptyPrefixSingle
            => /\ tested \subseteq {<<0, 0>>}
               /\ run_state = "completed"
                    => /\ tested = {<<0, 0>>}
                       /\ result_data # None
                       /\ result_data[1].key_data = generate_key_data(0)
                       /\ result_data[1].ext_id
                            = hash_to_extension_id(
                                  Sha256Digest(generate_key_data(0))))
    /\ (EmptyPrefixSingle /\ run_state = "running")
          ~> (run_state = "completed")

\* C19 witness: such a run completed with a result, having tested index 0.
C19_Witness ==
    /\ EmptyPrefixSingle
    /\ run_state = "completed"
    /\ result_data # None
    /\ <<0, 0>> \in tested
    /\ local_attempts[0] = 0

\* The GPU thread left its loop through the Err arm: it is past the loop
\* without a match, and the batch at its batch_id was called.
GpuErrored ==
    /\ mode = "hybrid"
    /\ gpu_pc \in {"final", "done"}
    /\ gpu_match = None
    /\ batch_start_counter(batch_id, gpu_batch_size) \in gpu_batches

\* C20: an accelerator error ends the GPU thread only. The step that
\* receives the error, and every later step of the GPU thread, leaves the
\* found flag, the result slot and the CPU workers as they are; the GPU
\* thread is never a swap winner or a slot writer; a CPU worker leaves its
\* loop only once found is set, and found is then set by a CPU worker's
\* match.
C20_ErrorEndsGpuOnly ==
    /\ [][(gpu_pc = "batch" /\ gpu_pc' = "final")
            => (found' = found /\ result' = result /\ cpu_vars' = cpu_vars)]_vars
    /\ [][(GpuErrored /\ gpu_pc' # gpu_pc)
            => (found' = found /\ result' = result /\ cpu_vars' = cpu_vars)]_vars
    /\ [](GpuErrored
            => /\ GpuLabel \notin swap_winners
               /\ \A k \in 1..Len(slot_writes) : slot_writes[k] # GpuLabel
               /\ found <=> (\E t \in Threads : CpuLabel(t) \in swap_winners)
               /\ \A t \in Threads : pc[t] \in {"final", "done"} => found)

\* C20 witness: after an accelerator error the run completed with the match
\* of a CPU worker.
C20_Witness ==
    /\ GpuErrored
    /\ run_state = "completed"
    /\ result_data # None
    /\ \E t \in Threads :
          /\ result_data[1].winner = CpuLabel(t)
          /\ result_data[1].key_data = generate_key_data(local_counter[t])

\* C21: when the accelerator is required and its initialisation fails the
\* run goes from idle directly to aborted: no GPU thread and no CPU thread
\* has been spawned, no index and no batch has been tested, the flag is
\* unset and no result is recorded, and nothing happens afterwards.
C21_InitFailureAborts ==
    /\ [][(run_state = "idle" /\ run_state' = "aborted")
            => /\ mode \in {"gpu", "hybrid"}
               /\ gpu_handle' = "none"
               /\ \A t \in Threads : pc'[t] = "unspawned"
               /\ gpu_pc' = "unspawned"
               /\ tested' = {} /\ gpu_batches' = {}
               /\ ~found' /\ result' = None /\ result_data' = None]_vars
    /\ [][(run_state = "aborted" /\ gpu_handle = "none") => UNCHANGED vars]_vars
    /\ [](gpu_handle = "none" /\ mode \in {"gpu", "hybrid"}
            => /\ run_state \in {"idle", "aborted"}
               /\ \A t \in Threads : pc[t] = "unspawned"
               /\ gpu_pc = "unspawned"
               /\ tested = {} /\ gpu_batches = {}
               /\ ~found /\ result = None /\ result_data = None)

\* C21 witness: a GPU-only run aborted at initialisation.
C21_Witness ==
    /\ mode = "gpu"
    /\ run_state = "aborted"
    /\ gpu_handle = "none"
    /\ gpu_pc = "unspawned"
    /\ gpu_batches = {}

\* C22: for a successfully initialised accelerator handle cleanup has run
\* exactly once when the run has ended, whichever way it ended: completed
\* with a match, or ended by an accelerator error.
C22_CleanupExactlyOnce ==
    (gpu_handle # "none" /\ run_state \in {"completed", "aborted"})
      => cleanups = 1

\* every worker thread of the run has terminated
AllWorkersDone ==
    /\ \A t \in Threads : pc[t] = "done"
    /\ mode = "hybrid" => gpu_pc = "done"

\* C23: the coordinator takes the result slot and sums the attempt
\* counters only after every worker thread, the GPU worker included, has
\* terminated, and after it has read them no worker writes the slot or a
\* counter.
C23_ReadAfterJoins ==
    /\ [](run_state \in {"joined", "completed"} => AllWorkersDone)
    /\ [][(result_data' # result_data \/ total' # total)
            => (AllWorkersDone /\ run_state = "joined")]_vars
    /\ [][run_state = "completed"
            => /\ result' = result
               /\ thread_attempts' = thread_attempts
               /\ gpu_attempts' = gpu_attempts
               /\ slot_writes' = slot_writes]_vars

\* C23 witness: a hybrid run whose coordinator has read a result and a
\* total, all of its threads having ended.
C23_Witness ==
    /\ mode = "hybrid"
    /\ run_state = "completed"
    /\ result_data # None
    /\ total > 0
    /\ AllWorkersDone

\* the CPU worker threads spawned so far
SpawnedCpuWorkers == {t \in Threads : pc[t] # "unspawned"}

\* C24: once a run has started its threads are one CPU worker per requested
\* core (exactly one in single-thread mode) and, in hybrid mode, the one
\* GPU thread besides; in hybrid mode as in CPU-only mode.
C24_OneWorkerPerCore ==
    run_state \in {"running", "joined", "completed"}
      => /\ Cardinality(SpawnedCpuWorkers)
              = (IF call.single_thread THEN 1 ELSE call.cores)
         /\ (gpu_pc # "unspawned") <=> call.hybrid

\* index i is the smallest index whose identifier starts with the prefix
SmallestMatch(i) ==
    /\ StartsWith(IdentifierOf(generate_key_data(i)), prefix)
    /\ \A j \in 0..(i - 1) :
          ~StartsWith(IdentifierOf(generate_key_data(j)), prefix)

\* C25: in GPU-only mode, whatever the positive batch size, the reported
\* match is the smallest matching index from 0 and its candidate, and a
\* started run whose prefix has a match terminates: with that match, or
\* because the accelerator failed.
C25_BatchSizeIrrelevant ==
    /\ []((mode = "gpu" /\ run_state = "completed")
            => /\ gpu_match # None /\ result_data # None
               /\ SmallestMatch(gpu_match[1].counter)
               /\ gpu_match[1].key_data
                    = generate_key_data(gpu_match[1].counter)
               /\ result_data[1].key_data = gpu_match[1].key_data
               /\ result_data[1].ext_id = IdentifierOf(gpu_match[1].key_data))
    /\ (mode = "gpu" /\ run_state = "running" /\ HasMatchBelow(RangeBound))
          ~> (run_state \in {"completed", "aborted"})

\* C25 witness: a run with batches of three reported a match that is not
\* the first index of its batch, after batches without a match.
C25_Witness ==
    /\ mode = "gpu"
    /\ run_state = "completed"
    /\ gpu_batch_size = 3
    /\ batch_id >= 2
    /\ gpu_match # None
    /\ gpu_match[1].counter > batch_start_counter(batch_id, gpu_batch_size)

\* C26: the total the coordinator reports is the number of candidates the
\* workers have tested: every test of every CPU worker, matching
\* candidates included, and the candidates the GPU worker accounts for.
C26_TotalCountsEveryTest ==
    (run_state = "completed" /\ result_data # None)
      => total = Cardinality(tested)
                   + (IF mode = "hybrid" THEN local_gpu_attempts ELSE 0)

\* A step that changes attempt slot t is a step of CPU worker t at one of
\* its two updates, raises the slot, and changes no other slot.
SlotWrittenByOwner(t) ==
    thread_attempts'[t] # thread_attempts[t]
      => /\ pc[t] \in {"progress", "final"}
         /\ pc'[t] # pc[t]
         /\ \A u \in Threads \ {t} : pc'[u] = pc[u]
         /\ gpu_pc' = gpu_pc
         /\ thread_attempts'[t] = local_attempts[t]
         /\ thread_attempts'[t] > thread_attempts[t]
         /\ \A u \in Threads \ {t} : thread_attempts'[u] = thread_attempts[u]
         /\ gpu_attempts' = gpu_attempts

\* A step that changes the GPU slot is a step of the GPU worker, raises the
\* slot, and changes no CPU slot.
GpuSlotWrittenByOwner ==
    gpu_attempts' # gpu_attempts
      => /\ gpu_pc \in {"batch", "final"}
         /\ gpu_pc' # gpu_pc
         /\ pc' = pc
         /\ gpu_attempts' = local_gpu_attempts'
         /\ gpu_attempts' > gpu_attempts
         /\ thread_attempts' = thread_attempts

\* C27: each attempt slot is written only by its owning worker (slot i by
\* CPU worker i, the GPU slot by the GPU worker), and the value of a slot
\* never decreases.
C27_SlotsOwnedAndMonotone ==
    [][/\ \A t \in Threads : SlotWrittenByOwner(t)
       /\ GpuSlotWrittenByOwner]_vars

\* C27 witness: two CPU workers and the GPU worker have each stored a
\* positive count in their own slot.
C27_Witness ==
    /\ mode = "hybrid"
    /\ num_threads = 2
    /\ thread_attempts[0] > 0
    /\ thread_attempts[1] > 0
    /\ gpu_attempts > 0

\* C28: a worker that has terminated, by whichever exit (it won the flag
\* race, it matched but lost the race, it saw the flag set, or, the GPU
\* worker, it got an accelerator error), has stored its final local attempt
\* count in its slot, so the sum the coordinator computes after the joins
\* is the sum of the final local counts.
C28_FinalCountsStored ==
    /\ \A t \in Threads :
          pc[t] = "done" => thread_attempts[t] = local_attempts[t]
    /\ (mode = "hybrid" /\ gpu_pc = "done")
          => gpu_attempts = local_gpu_attempts
    /\ (run_state = "completed" /\ result_data # None)
          => total = SumAttempts(local_attempts, num_threads)
                       + (IF mode = "hybrid" THEN local_gpu_attempts ELSE 0)

\* C28 witness: a completed hybrid run whose GPU worker ended with an
\* error after a batch without a match, one CPU worker of which won the
\* flag race and another matched but lost it.
C28_Witness ==
    /\ run_state = "completed"
    /\ result_data # None
    /\ GpuErrored
    /\ gpu_attempts > 0
    /\ \E t \in Threads : CpuLabel(t) \in swap_winners
    /\ \E t \in Threads : LostRace(t)

\* the identifier of record r is that of the digest of its candidate bytes
IdMatchesKey(r) ==
    r.ext_id = hash_to_extension_id(Sha256Digest(r.key_data))

\* C30: in every recorded result, written by a CPU worker or by the GPU
\* worker, in the slot or taken from it, the identifier is
\* hash_to_extension_id of the SHA-256 digest of the stored candidate
\* bytes.
C30_IdentifierOfStoredKey ==
    /\ result # None => IdMatchesKey(result[1])
    /\ result_data # None => IdMatchesKey(result_data[1])

\* C30 witness: the slot holds the result of the GPU worker, and a CPU
\* worker has matched a candidate of its own, whose result tuple agrees too.
C30_Witness ==
    /\ mode = "hybrid"
    /\ result # None
    /\ result[1].winner = GpuLabel
    /\ IdMatchesKey(result[1])
    /\ \E t \in Threads :
          /\ pc[t] \in {"swap", "final", "done"}
          /\ <<t, local_counter[t]>> \in tested
          /\ IdMatchesKey(CpuResult(t))

\* ------------------------------------------------------------------ locks
\* The same runs with every Mutex acquisition a step of its own: a thread
\* at a `.lock()` waits until the Mutex is free, holds the guard over the
\* statement or block that owns it, and releases it where the guard drops.

\* The Mutex a CPU worker is about to lock at each position of its closure:
\* result at the write, its attempts vector at the progress update and the
\* final update; thread 0 then locks last_progress_time and, holding it,
\* gpu_attempts (hybrid) and the attempts vector again.
CpuWants(p) ==
    CASE p = "write" -> "result"
      [] p \in {"progress", "final", "read_cpu"} -> "attempts"
      [] p = "read_gpu" -> "gpu_attempts"
      [] p = "sample" -> "last_progress_time"
      [] OTHER -> "none"

\* The Mutex the GPU thread is about to lock: result at the write,
\* gpu_attempts after a batch without a match and at the final update.
GpuWants(p) ==
    CASE p = "write" -> "result"
      [] p \in {"store", "final"} -> "gpu_attempts"
      [] OTHER -> "none"

\* The Mutex the coordinator is about to lock after the joins: result for
\* the take(), then gpu_attempts (hybrid), then the attempts vector.
CoordWants(p) ==
    CASE p = "joined" -> "result"
      [] p = "sum_gpu" -> "gpu_attempts"
      [] p = "sum_cpu" -> "attempts"
      [] OTHER -> "none"

\* the position of a thread that has been granted the lock it asked for at p
Locked(p) ==
    CASE p = "write" -> "write_locked"
      [] p = "progress" -> "progress_locked"
      [] p = "final" -> "final_locked"
      [] p = "sample" -> "sample_locked"
      [] p = "read_gpu" -> "read_gpu_locked"
      [] p = "read_cpu" -> "read_cpu_locked"
      [] p = "store" -> "store_locked"
      [] p = "joined" -> "joined_locked"
      [] p = "sum_gpu" -> "sum_gpu_locked"
      [] p = "sum_cpu" -> "sum_cpu_locked"

\* .lock().unwrap() of a CPU worker: granted when no guard is alive
LockAcquireCpu(t) ==
    /\ run_state = "running"
    /\ CpuWants(pc[t]) # "none"
    /\ lock_owner[CpuWants(pc[t])] = NoOwner
    /\ lock_owner' = [lock_owner EXCEPT ![CpuWants(pc[t])] = CpuLabel(t)]
    /\ pc' = [pc EXCEPT ![t] = Locked(pc[t])]
    /\ UNCHANGED <<config_vars, accel_vars, found, result, thread_attempts,
                   gpu_attempts, local_counter, local_attempts, gpu_vars,
                   coord_vars, history_vars>>

\* *result.lock().unwrap() = Some(..); the guard is a temporary of the
\* statement.
CpuWriteLocked(t) ==
    /\ pc[t] = Locked("write")
    /\ result' = Some(CpuResult(t))
    /\ slot_writes' = Append(slot_writes, CpuLabel(t))
    /\ lock_owner' = [lock_owner EXCEPT !["result"] = NoOwner]
    /\ pc' = [pc EXCEPT ![t] = "final"]
    /\ UNCHANGED <<config_vars, accel_vars, found, thread_attempts,
                   gpu_attempts, local_counter, local_attempts, gpu_vars,
                   coord_vars, tested, gpu_batches, swap_winners, late_tests,
                   late_batches>>

\* CpuProgressLocked whose guard outlives its block: the attempts vector
\* stays locked by the worker.
CpuProgressLocked_KeepGuard(t) ==
    /\ pc[t] = Locked("progress")
    /\ thread_attempts' = [thread_attempts EXCEPT ![t] = local_attempts[t]]
    /\ pc' = [pc EXCEPT ![t] = IF t = 0 THEN "sample" ELSE "loop"]
    /\ UNCHANGED <<config_vars, lock_owner, accel_vars, found, result,
                   gpu_attempts, local_counter, local_attempts, gpu_vars,
                   coord_vars, history_vars>>

\* { let mut attempts = thread_attempts.lock().unwrap();
\*   attempts[thread_id] = local_attempts; }  the guard drops with the block;
\* thread 0 goes on to the progress sample.
CpuProgressLocked(t) ==
    /\ pc[t] = Locked("progress")
    /\ thread_attempts' = [thread_attempts EXCEPT ![t] = local_attempts[t]]
    /\ lock_owner' = [lock_owner EXCEPT !["attempts"] = NoOwner]
    /\ pc' = [pc EXCEPT ![t] = IF t = 0 THEN "sample" ELSE "loop"]
    /\ UNCHANGED <<config_vars, accel_vars, found, result, gpu_attempts,
                   local_counter, local_attempts, gpu_vars, coord_vars,
                   history_vars>>

\* thread 0, holding last_progress_time: if a second has passed since the
\* last report it reads the totals, otherwise the block ends.
SampleCheck ==
    /\ 0 \in DOMAIN pc
    /\ pc[0] = Locked("sample")
    /\ \E elapsed \in BOOLEAN :
          pc' = [pc EXCEPT ![0] =
                   IF elapsed
                   THEN (IF mode = "hybrid" THEN "read_gpu" ELSE "read_cpu")
                   ELSE "sample_end"]
    /\ UNCHANGED <<config_vars, lock_owner, accel_vars, found, result,
                   thread_attempts, gpu_attempts, local_counter,
                   local_attempts, gpu_vars, coord_vars, history_vars>>

\* let gpu_total = *gpu_attempts.lock().unwrap();
SampleReadGpu ==
    /\ 0 \in DOMAIN pc
    /\ pc[0] = Locked("read_gpu")
    /\ lock_owner' = [lock_owner EXCEPT !["gpu_attempts"] = NoOwner]
    /\ pc' = [pc EXCEPT ![0] = "read_cpu"]
    /\ UNCHANGED <<config_vars, accel_vars, found, result, thread_attempts,
                   gpu_attempts, local_counter, local_attempts, gpu_vars,
                   coord_vars, history_vars>>

\* let total = { let attempts = ..lock().unwrap(); attempts.iter().sum() };
SampleReadCpu ==
    /\ 0 \in DOMAIN pc
    /\ pc[0] = Locked("read_cpu")
    /\ lock_owner' = [lock_owner EXCEPT !["attempts"] = NoOwner]
    /\ pc' = [pc EXCEPT ![0] = "sample_end"]
    /\ UNCHANGED <<config_vars, accel_vars, found, result, thread_attempts,
                   gpu_attempts, local_counter, local_attempts, gpu_vars,
                   coord_vars, history_vars>>

\* end of the `if thread_id == 0` block: the last_progress_time guard drops
SampleEnd ==
    /\ 0 \in DOMAIN pc
    /\ pc[0] = "sample_end"
    /\ lock_owner' = [lock_owner EXCEPT !["last_progress_time"] = NoOwner]
    /\ pc' = [pc EXCEPT ![0] = "loop"]
    /\ UNCHANGED <<config_vars, accel_vars, found, result, thread_attempts,
                   gpu_attempts, local_counter, local_attempts, gpu_vars,
                   coord_vars, history_vars>>

\* the final update of the thread's attempts, under the lock
CpuFinalLocked(t) ==
    /\ pc[t] = Locked("final")
    /\ thread_attempts' = [thread_attempts EXCEPT ![t] = local_attempts[t]]
    /\ lock_owner' = [lock_owner EXCEPT !["attempts"] = NoOwner]
    /\ pc' = [pc EXCEPT ![t] = "done"]
    /\ UNCHANGED <<config_vars, accel_vars, found, result, gpu_attempts,
                   local_counter, local_attempts, gpu_vars, coord_vars,
                   history_vars>>

\* gpu_generator.search_vanity_id(..) of the hybrid GPU thread, up to the
\* lock of its arm: Some goes to the swap, None to the gpu_attempts update,
\* Err to the end of the loop.
GpuBatchCall ==
    /\ gpu_pc = "batch"
    /\ \E r \in search_vanity_id(prefix,
                    batch_start_counter(batch_id, gpu_batch_size),
                    gpu_batch_size) :
          CASE r.kind = "Some" ->
                 /\ local_gpu_attempts' = local_gpu_attempts
                       + (r.counter
                            - batch_start_counter(batch_id, gpu_batch_size)) + 1
                 /\ gpu_match' = Some([counter |-> r.counter,
                                       key_data |-> r.key_data])
                 /\ gpu_pc' = "swap"
                 /\ UNCHANGED batch_id
            [] r.kind = "None" ->
                 /\ local_gpu_attempts' = local_gpu_attempts + gpu_batch_size
                 /\ batch_id' = batch_id + 1
                 /\ gpu_pc' = "store"
                 /\ UNCHANGED gpu_match
            [] r.kind = "Err" ->
                 /\ gpu_pc' = "final"
                 /\ UNCHANGED <<batch_id, local_gpu_attempts, gpu_match>>
    /\ gpu_batches' = gpu_batches
                        \cup {batch_start_counter(batch_id, gpu_batch_size)}
    /\ late_batches' = late_batches + (IF found THEN 1 ELSE 0)
    /\ UNCHANGED <<config_vars, lock_owner, accel_vars, found, result,
                   thread_attempts, gpu_attempts, cpu_vars, coord_vars,
                   tested, slot_writes, swap_winners, late_tests>>

\* .lock().unwrap() of the GPU thread
LockAcquireGpu ==
    /\ run_state = "running"
    /\ GpuWants(gpu_pc) # "none"
    /\ lock_owner[GpuWants(gpu_pc)] = NoOwner
    /\ lock_owner' = [lock_owner EXCEPT ![GpuWants(gpu_pc)] = GpuLabel]
    /\ gpu_pc' = Locked(gpu_pc)
    /\ UNCHANGED <<config_vars, accel_vars, found, result, thread_attempts,
                   gpu_attempts, cpu_vars, batch_id, local_gpu_attempts,
                   gpu_match, coord_vars, history_vars>>

\* *result.lock().unwrap() = Some((.., "GPU".to_string()));
GpuWriteLocked ==
    /\ gpu_pc = Locked("write")
    /\ result' = Some(GpuResult)
    /\ slot_writes' = Append(slot_writes, GpuLabel)
    /\ lock_owner' = [lock_owner EXCEPT !["result"] = NoOwner]
    /\ gpu_pc' = "final"
    /\ UNCHANGED <<config_vars, accel_vars, found, thread_attempts,
                   gpu_attempts, cpu_vars, batch_id, local_gpu_attempts,
                   gpu_match, coord_vars, tested, gpu_batches, swap_winners,
                   late_tests, late_batches>>

\* Ok(None): *gpu_attempts.lock().unwrap() = local_gpu_attempts;
GpuStoreLocked ==
    /\ gpu_pc = Locked("store")
    /\ gpu_attempts' = local_gpu_attempts
    /\ lock_owner' = [lock_owner EXCEPT !["gpu_attempts"] = NoOwner]
    /\ gpu_pc' = "loop"
    /\ UNCHANGED <<config_vars, accel_vars, found, result, thread_attempts,
                   cpu_vars, batch_id, local_gpu_attempts, gpu_match,
                   coord_vars, history_vars>>

\* the final update of gpu_attempts; the closure ends and drops the
\* generator.
GpuFinalLocked ==
    /\ gpu_pc = Locked("final")
    /\ gpu_attempts' = local_gpu_attempts
    /\ lock_owner' = [lock_owner EXCEPT !["gpu_attempts"] = NoOwner]
    /\ gpu_handle' = "dropped"
    /\ cleanups' = cleanups + 1
    /\ gpu_pc' = "done"
    /\ UNCHANGED <<config_vars, found, result, thread_attempts, cpu_vars,
                   batch_id, local_gpu_attempts, gpu_match, coord_vars,
                   history_vars>>

\* .lock().unwrap() of the coordinator, after every join has returned
LockAcquireCoord ==
    /\ CoordWants(run_state) # "none"
    /\ lock_owner[CoordWants(run_state)] = NoOwner
    /\ lock_owner' = [lock_owner EXCEPT ![CoordWants(run_state)] = CoordLabel]
    /\ run_state' = Locked(run_state)
    /\ UNCHANGED <<config_vars, accel_vars, found, result, thread_attempts,
                   gpu_attempts, cpu_vars, gpu_vars, result_data, total,
                   history_vars>>

\* let result_data = result.lock().unwrap().take();
CoordTakeLocked ==
    /\ run_state = Locked("joined")
    /\ result_data' = result
    /\ result' = None
    /\ lock_owner' = [lock_owner EXCEPT !["result"] = NoOwner]
    /\ run_state' = IF result = None THEN "completed"
                    ELSE IF mode = "hybrid" THEN "sum_gpu" ELSE "sum_cpu"
    /\ UNCHANGED <<config_vars, accel_vars, found, thread_attempts,
                   gpu_attempts, cpu_vars, gpu_vars, total, history_vars>>

\* let gpu_total = *gpu_attempts.lock().unwrap();
CoordSumGpuLocked ==
    /\ run_state = Locked("sum_gpu")
    /\ total' = gpu_attempts
    /\ lock_owner' = [lock_owner EXCEPT !["gpu_attempts"] = NoOwner]
    /\ run_state' = "sum_cpu"
    /\ UNCHANGED <<config_vars, accel_vars, found, result, thread_attempts,
                   gpu_attempts, cpu_vars, gpu_vars, result_data,
                   history_vars>>

\* the sum of the attempts vector under its lock, added to gpu_total
CoordSumCpuLocked ==
    /\ run_state = Locked("sum_cpu")
    /\ total' = total + SumAttempts(thread_attempts, num_threads)
    /\ lock_owner' = [lock_owner EXCEPT !["attempts"] = NoOwner]
    /\ run_state' = "completed"
    /\ UNCHANGED <<config_vars, accel_vars, found, result, thread_attempts,
                   gpu_attempts, cpu_vars, gpu_vars, result_data,
                   history_vars>>

\* the steps of one CPU worker
LockCpuStep(t) ==
    /\ t \in Threads
    /\ \/ CpuLoad(t)
       \/ CpuTest(t)
       \/ CpuSwap(t)
       \/ LockAcquireCpu(t)
       \/ CpuWriteLocked(t)
       \/ CpuProgressLocked(t)
       \/ CpuFinalLocked(t)
       \/ (t = 0 /\ (SampleCheck \/ SampleReadGpu \/ SampleReadCpu
                       \/ SampleEnd))

\* the steps of the GPU thread
LockGpuStep ==
    \/ GpuLoad
    \/ GpuBatchCall
    \/ GpuSwap
    \/ LockAcquireGpu
    \/ GpuWriteLocked
    \/ GpuStoreLocked
    \/ GpuFinalLocked

\* the steps of the coordinator once the threads are spawned
LockCoordStep ==
    \/ JoinAll
    \/ LockAcquireCoord
    \/ CoordTakeLocked
    \/ CoordSumGpuLocked
    \/ CoordSumCpuLocked

LockInit ==
    /\ mode \in {"cpu", "hybrid"}
    /\ prefix \in Prefixes
    /\ num_threads \in 1..MaxThreads
    /\ gpu_batch_size = SmallBatch
    /\ RunInit

LockNext ==
    \/ StartCpu
    \/ StartHybrid
    \/ JoinAll
    \/ LockAcquireCoord
    \/ CoordTakeLocked
    \/ CoordSumGpuLocked
    \/ CoordSumCpuLocked
    \/ \E t \in Threads : CpuLoad(t)
    \/ \E t \in Threads : CpuTest(t)
    \/ \E t \in Threads : CpuSwap(t)
    \/ \E t \in Threads : LockAcquireCpu(t)
    \/ \E t \in Threads : CpuWriteLocked(t)
    \/ \E t \in Threads : CpuProgressLocked(t)
    \/ \E t \in Threads : CpuFinalLocked(t)
    \/ SampleCheck
    \/ SampleReadGpu
    \/ SampleReadCpu
    \/ SampleEnd
    \/ GpuLoad
    \/ GpuBatchCall
    \/ GpuSwap
    \/ LockAcquireGpu
    \/ GpuWriteLocked
    \/ GpuStoreLocked
    \/ GpuFinalLocked

\* Every thread is an OS thread that keeps being scheduled.
SpecLocks ==
    /\ LockInit
    /\ [][LockNext]_vars
    /\ \A t \in 0..(MaxThreads - 1) : WF_vars(LockCpuStep(t))
    /\ WF_vars(LockGpuStep)
    /\ WF_vars(LockCoordStep)

\* the threads of a run
LockThreads ==
    {CpuLabel(t) : t \in 0..(MaxThreads - 1)} \cup {GpuLabel, CoordLabel}

\* the Mutexes whose guard thread w holds
HeldBy(w) == {l \in Locks : lock_owner[l] = w}

\* the Mutex thread w is waiting at, "none" if it is at no .lock()
Wanted(w) ==
    CASE w[1] = "CPU" ->
           IF run_state = "running" /\ w[2] \in DOMAIN pc
           THEN CpuWants(pc[w[2]]) ELSE "none"
      [] w[1] = "GPU" ->
           IF run_state = "running" THEN GpuWants(gpu_pc) ELSE "none"
      [] OTHER -> CoordWants(run_state)

\* thread w holds a guard while it waits for or holds another
Nests(w) ==
    /\ HeldBy(w) # {}
    /\ Wanted(w) # "none" \/ Cardinality(HeldBy(w)) > 1

\* thread w is at a .lock() whose Mutex is held
Blocked(w) ==
    /\ Wanted(w) # "none"
    /\ lock_owner[Wanted(w)] # NoOwner

\* thread w leaves the .lock() it waits at in this step
StopsWaiting(w) == Wanted(w) # "none" /\ Wanted(w)' # Wanted(w)

\* C29: the locks of a run never deadlock and no acquisition waits for
\* ever.  Only CPU worker 0 holds a guard (that of last_progress_time)
\* while it takes another lock, and it never holds more than two; a thread
\* that waits at a lock waits for a thread that is itself not waiting; a
\* thread leaves a .lock() only with the guard of that Mutex in hand; and
\* every thread that reaches a .lock() eventually leaves it.
C29_LocksNeverDeadlock ==
    /\ [](\A w \in LockThreads :
             Nests(w) => /\ w = CpuLabel(0)
                         /\ "last_progress_time" \in HeldBy(w)
                         /\ Cardinality(HeldBy(w)) <= 2)
    /\ [](\A w \in LockThreads :
             Blocked(w) => ~Blocked(lock_owner[Wanted(w)]))
    /\ [][\A w \in LockThreads :
             StopsWaiting(w) => /\ lock_owner[Wanted(w)] = NoOwner
                                /\ lock_owner'[Wanted(w)] = w]_vars
    /\ \A w \in LockThreads : (Wanted(w) # "none") ~> (Wanted(w) = "none")

\* CPU worker 0 holds last_progress_time and waits for the attempts vector,
\* which another CPU worker has locked, in a hybrid run.
C29_Witness ==
    /\ mode = "hybrid"
    /\ run_state = "running"
    /\ num_threads > 1
    /\ pc[0] = "read_cpu"
    /\ lock_owner["last_progress_time"] = CpuLabel(0)
    /\ lock_owner["attempts"] = CpuLabel(1)

\* ---------------------------------------------- generate_key_data on pairs
\* generate_key_data called on two indices, one after the other.

\* u64 indices: the first ones, and values that agree in their low byte,
\* their low two bytes or their low 15 bits
PairCounters == Counters \cup 0..3 \cup {32768, 32769, 65537}

PairInputs ==
    {[op |-> "none", calls |-> 0, counter |-> c, counter2 |-> d] :
        c \in PairCounters, d \in PairCounters}

PairsInit ==
    /\ mode = "cpu"
    /\ prefix = <<>>
    /\ num_threads = 0
    /\ gpu_batch_size = SmallBatch
    /\ RunStateInit
    /\ call \in PairInputs

\* let a = generate_key_data(counter); let b = generate_key_data(counter2);
CallGeneratePair ==
    /\ call.op \in {"none", "generate_key_data_pair"}
    /\ call.calls < MaxCalls
    /\ call' = [op |-> "generate_key_data_pair", calls |-> call.calls + 1,
                counter |-> call.counter, counter2 |-> call.counter2,
                ret |-> generate_key_data(call.counter),
                ret2 |-> generate_key_data(call.counter2)]
    /\ UNCHANGED <<mode, prefix, num_threads, gpu_batch_size, accel_vars,
                   lock_owner, found, result, thread_attempts, gpu_attempts,
                   cpu_vars, gpu_vars, coord_vars, history_vars>>

PairsNext == CallGeneratePair

SpecPairs == PairsInit /\ [][PairsNext]_vars

\* C31: generate_key_data is injective: two distinct indices give two
\* distinct 32-byte candidates, and already their bytes 0..7 differ; equal
\* indices give equal candidates.
C31_KeyDataInjective ==
    call.op = "generate_key_data_pair"
      => /\ (call.counter # call.counter2) => (call.ret # call.ret2)
         /\ (call.counter # call.counter2)
               => (SubSeq(call.ret, 1, 8) # SubSeq(call.ret2, 1, 8))
         /\ (call.counter = call.counter2) => (call.ret = call.ret2)

\* C31 witness: two distinct indices whose derived bytes 8..31 are the same;
\* their candidates differ in bytes 0..7 only.
C31_Witness ==
    /\ call.op = "generate_key_data_pair"
    /\ call.counter # call.counter2
    /\ SubSeq(call.ret, 9, 32) = SubSeq(call.ret2, 9, 32)
    /\ call.ret # call.ret2

\* ------------------------------------------------------- the start counters
\* The spawn of the CPU-only runner and of the hybrid runners alone, for
\* every count of CPU workers in 1..=1024.
StartsInit ==
    /\ mode \in {"cpu", "hybrid"}
    /\ prefix = <<>>
    /\ num_threads \in 1..1024
    /\ gpu_batch_size = SmallBatch
    /\ RunInit

StartsNext ==
    \/ StartCpu
    \/ StartHybrid

SpecStarts == StartsInit /\ [][StartsNext]_vars

\* the distance between the start counters of two neighbouring CPU workers
StartStride ==
    IF mode = "cpu" THEN U64_MAX \div 1024 ELSE (U64_MAX \div 2) \div 1024

\* C32: for every count N of CPU workers in 1..=1024 each worker's start
\* counter (thread_id * THREAD_RANGE_SIZE, in hybrid mode CPU_RANGE_START +
\* thread_id * CPU_THREAD_RANGE_SIZE) fits the unsigned word, the start
\* counters are pairwise distinct, and those of neighbouring workers are
\* exactly one range size apart.
C32_StartCountersFit ==
    run_state = "running" =>
        /\ \A t \in Threads : local_counter[t] \in 0..U64_MAX
        /\ Cardinality({local_counter[t] : t \in Threads}) = num_threads
        /\ \A t \in Threads :
              (t + 1) \in Threads
                => local_counter[t + 1] - local_counter[t] = StartStride
        /\ local_counter[0] = (IF mode = "cpu" THEN 0 ELSE U64_MAX \div 2)

\* C32 witness: a hybrid run has spawned 1024 CPU workers; the last one
\* starts above the first half of the index space and below its end.
C32_Witness ==
    /\ run_state = "running"
    /\ mode = "hybrid"
    /\ num_threads = 1024
    /\ local_counter[1023] > CPU_RANGE_START
    /\ local_counter[1023] < U64_MAX

\* the batch calls issued so far start at 0, batch_size, 2 * batch_size, ..
IssuedInOrder ==
    gpu_batches =
        {k * gpu_batch_size : k \in 0..(Cardinality(gpu_batches) - 1)}

\* the batch call of this step found no match: the loop goes round again
ReturnedNone ==
    /\ gpu_match' = None
    /\ gpu_pc' \in {"loop", "main_loop"}

\* C33: the batch calls of the accelerator loop (GPU-only and hybrid) are
\* contiguous, disjoint and in increasing order: the k-th call starts at
\* k * batch_size; batch_id advances by exactly one in the step of a call
\* that found no match and in no other step; and once a call has returned
\* a match, no further batch is issued and batch_id stays.
C33_BatchesInOrder ==
    /\ [](/\ IssuedInOrder
          /\ Cardinality(gpu_batches) \in {batch_id, batch_id + 1}
          /\ gpu_match # None => Cardinality(gpu_batches) = batch_id + 1)
    /\ [][(gpu_batches' # gpu_batches)
            => /\ gpu_batches' = gpu_batches \cup {batch_id * gpu_batch_size}
               /\ (batch_id' = batch_id + 1) <=> ReturnedNone
               /\ batch_id' \in {batch_id, batch_id + 1}]_vars
    /\ [][(batch_id' # batch_id) => (gpu_batches' # gpu_batches)]_vars
    /\ [][(gpu_match # None)
            => (gpu_batches' = gpu_batches /\ batch_id' = batch_id)]_vars

\* C33 witness: a GPU-only run whose first batch found nothing and whose
\* second batch returned the match.
C33_Witness ==
    /\ mode = "gpu"
    /\ run_state = "completed"
    /\ batch_id = 1
    /\ gpu_match # None
    /\ gpu_batches = {0, gpu_batch_size}

\* a GPU-only run that ended on an error of a batch call
GpuOnlyErrored ==
    /\ mode = "gpu"
    /\ run_state = "aborted"
    /\ gpu_handle # "none"

\* the batch call of this step, in a GPU-only run, returned an error:
\* neither a match nor a batch counted as searched
BatchCallFailed ==
    /\ mode = "gpu"
    /\ gpu_batches' # gpu_batches
    /\ gpu_match' = None
    /\ batch_id' = batch_id

\* C34: in GPU-only mode an accelerator runtime error aborts the whole
\* run: the step that receives the error ends the loop in the aborted
\* state, no batch is issued afterwards, and no result and no total is
\* reported.
C34_GpuOnlyErrorAborts ==
    /\ [][BatchCallFailed
            => /\ run_state' = "aborted"
               /\ gpu_pc' = "done"
               /\ result_data' = None]_vars
    /\ [][GpuOnlyErrored
            => /\ gpu_batches' = gpu_batches
               /\ batch_id' = batch_id
               /\ run_state' = "aborted"
               /\ result_data' = result_data]_vars
    /\ [](GpuOnlyErrored
            => /\ result_data = None
               /\ result = None
               /\ gpu_match = None
               /\ total = 0
               /\ gpu_pc = "done")

\* C34 witness: a GPU-only run searched one batch without a match and was
\* aborted by an error of the second batch call.
C34_Witness ==
    /\ GpuOnlyErrored
    /\ batch_id = 1
    /\ gpu_batches = {0, gpu_batch_size}
    /\ local_gpu_attempts = gpu_batch_size

\* --------------------------------------------------- the results buffer
\* search_vanity_id of both wrappers hands the kernel a buffer of eleven
\* u32 words, [found_flag, counter_low, counter_high, key_data_as_8_u32s],
\* and decodes it after the call.  Element k of `results` is word k - 1.
\* The two index words are scaled with the index, to half of WordBits bits
\* each; the eight candidate words keep their 32 bits.

\* the width of one index word
HalfBits == WordBits \div 2

\* a | b on unsigned words
RECURSIVE BitOr(_, _)
BitOr(a, b) ==
    IF a = 0 THEN b
    ELSE IF b = 0 THEN a
    ELSE (IF (a % 2) + (b % 2) > 0 THEN 1 ELSE 0)
           + 2 * BitOr(a \div 2, b \div 2)

\* let counter = counter_low | (counter_high << 32);
results_counter(results) ==
    BitOr(results[2], results[3] * (2^HalfBits))

\* key_data with the bytes of each chunk taken from the top downwards
results_key_data_be(results) ==
    [k \in 1..32 |->
        LET i == (k - 1) \div 4
            j == (k - 1) % 4
        IN  (results[4 + i] \div (2^((3 - j) * 8))) % 256] \o <<>>

\* key_data[i * 4 + j] = ((chunk >> (j * 8)) & 0xFF) as u8, chunk being
\* results[3 + i], for i in 0..8 and j in 0..4
results_key_data(results) ==
    [k \in 1..32 |->
        LET i == (k - 1) \div 4
            j == (k - 1) % 4
        IN  (results[4 + i] \div (2^(j * 8))) % 256] \o <<>>

\* the value search_vanity_id returns for the status of the kernel call
\* (`result` in the CUDA wrapper; 0 in the Metal wrapper, which has no
\* status) and the buffer
search_vanity_id_decode(status, results) ==
    IF status # 0
    THEN [kind |-> "Err"]
    ELSE IF results[1] # 0
         THEN [kind |-> "Some", counter |-> results_counter(results),
               key_data |-> results_key_data(results)]
         ELSE [kind |-> "None"]

\* What the kernel writes for a match (index, candidate): the layout named
\* in the wrappers' comment, each chunk holding four candidate bytes with
\* the first one lowest.
EncodeResults(found_flag, counter, key_data) ==
    <<found_flag, counter % (2^HalfBits), counter \div (2^HalfBits)>>
      \o [i \in 1..8 |->
            key_data[4 * i - 3] + 256 * key_data[4 * i - 2]
              + 65536 * key_data[4 * i - 1] + 16777216 * key_data[4 * i]]

\* 32-byte candidates with a different byte at every position of a chunk;
\* the top byte of a chunk stays below 128, the words being held in
\* signed 32-bit integers
KeyBlocks ==
    {[k \in 1..32 |-> IF k % 4 = 0 THEN (b * k) % 128
                                   ELSE (b * k + 3) % 256] \o <<>> :
        b \in {0, 1, 7, 37, 251}}

\* indices with a low word, a high word, or both
ResultCounters ==
    {0, 1, 2^HalfBits - 1, 2^HalfBits, 2^HalfBits + 1,
     (2^HalfBits - 1) * (2^HalfBits), 2^(2 * HalfBits) - 1}

DecodeInputs ==
    {[op |-> "none", calls |-> 0, status |-> st, counter |-> c,
      key_data |-> kd, results |-> EncodeResults(f, c, kd)] :
        st \in {0, -4}, f \in {0, 1, 255}, c \in ResultCounters,
        kd \in KeyBlocks}

DecodeInit ==
    /\ mode = "gpu"
    /\ prefix = <<>>
    /\ num_threads = 0
    /\ gpu_batch_size = SmallBatch
    /\ RunStateInit
    /\ call \in DecodeInputs

\* the part of search_vanity_id after the kernel call
CallDecode ==
    /\ call.op \in {"none", "search_vanity_id"}
    /\ call.calls < MaxCalls
    /\ call' = [op |-> "search_vanity_id", calls |-> call.calls + 1,
                status |-> call.status, counter |-> call.counter,
                key_data |-> call.key_data, results |-> call.results,
                ret |-> search_vanity_id_decode(call.status, call.results)]
    /\ UNCHANGED <<mode, prefix, num_threads, gpu_batch_size, accel_vars,
                   lock_owner, found, result, thread_attempts, gpu_attempts,
                   cpu_vars, gpu_vars, coord_vars, history_vars>>

DecodeNext == CallDecode

SpecDecode == DecodeInit /\ [][DecodeNext]_vars

\* C35: a results buffer of a successful call decodes to no match exactly
\* when word 0 is zero; otherwise the index is word 1 with word 2 above
\* it, candidate byte 4 * i + j is byte j, counted from the low end, of
\* word 3 + i, and the buffer written for (index, candidate) decodes to
\* that index and that candidate.
C35_ResultsDecoding ==
    (call.op = "search_vanity_id" /\ call.status = 0)
      => /\ (call.ret.kind = "None") <=> (call.results[1] = 0)
         /\ call.ret.kind \in {"None", "Some"}
         /\ (call.results[1] # 0)
              => /\ call.ret.counter
                      = call.results[2] + (2^HalfBits) * call.results[3]
                 /\ \A i \in 0..7 : \A j \in 0..3 :
                       call.ret.key_data[4 * i + j + 1]
                         = (call.results[4 + i] \div (256^j)) % 256
                 /\ call.ret.counter = call.counter
                 /\ call.ret.key_data = call.key_data

\* C35 witness: a buffer with a found flag other than 1, an index that
\* fills both index words and a candidate whose chunks hold four different
\* bytes has been decoded.
C35_Witness ==
    /\ call.op = "search_vanity_id"
    /\ call.status = 0
    /\ call.results[1] = 255
    /\ call.results[2] # 0
    /\ call.results[3] # 0
    /\ call.ret.kind = "Some"
    /\ Cardinality({call.ret.key_data[k] : k \in 1..4}) = 4

====
